---- MODULE Spec2Model ----
(***************************************************************************)
(* Model of the directory reconciliation engine of go-ldap-data-sync       *)
(* (src/go-ldap-data-sync/main.go): one run of main() captures a           *)
(* watermark, runs the Role, Resource and Association synchronizers (each  *)
(* one relational transaction) and then markAndPurge (one statement per    *)
(* table for the mark step, one per table for the purge step).             *)
(*                                                                         *)
(* Time: the wall clock `now` counts ticks finer than a second.            *)
(* Format(t) is time.Format(time.RFC3339), which drops the sub-second      *)
(* part; every timestamp handed to the database went through it, so the    *)
(* columns created_at / updated_at hold whole seconds.                     *)
(***************************************************************************)
EXTENDS Integers, Sequences, FiniteSets, TLC

VARIABLES
    now,                 \* wall clock, in ticks
    pc,                  \* position of the (single) process inside main()
    syncStartTimestamp,  \* time.Now() captured by main(), in ticks
    purgeAgeInDays,      \* cfg.PurgeAgeInDays of the running process
    dryRun,              \* cfg.DryRun of the running process
    fatal,               \* the log.Fatal that ended the process, "" if none
    viz_roles,           \* table: dn -> row
    viz_roles_parents,   \* table: set of <<child_dn, parent_dn>>
    viz_resources,       \* table: dn -> row
    viz_roles_resources, \* table: dn -> row
    searched,            \* per entity type: how ldapSearch ended in this run
    fetched,             \* per entity type: the dns ldapSearch returned in this run
    parentStmts,         \* the (child, parent) inserts phase 2 derives from this run's roles
    committed,           \* per entity type: did its transaction commit in this run
    rowFailed,           \* per entity type: did a row-level statement of its transaction fail
    marked,              \* per table: did the mark statement succeed in this run
    purged,              \* per table: did the purge statement succeed in this run
    before,              \* the four tables as they were when the run started
    flaggedAt,           \* per table and dn: watermark of the mark step that flagged the row
    runs,                \* runs of the process that may still be started
    faults,              \* failing directory / database calls that may still happen
    entry,               \* attribute values of the directory entry the decoders are given
    columns,             \* the data columns the decoders passed to stmt.Exec for it
    rival                \* processes started against the same store at overlapping times

vars == <<now, pc, syncStartTimestamp, purgeAgeInDays, dryRun, fatal, viz_roles,
          viz_roles_parents, viz_resources, viz_roles_resources, searched,
          fetched, parentStmts, committed, rowFailed, marked, purged, before, flaggedAt, runs,
          faults, entry, columns, rival>>

(***************************************************************************)
(* Bounds of the model.                                                    *)
(***************************************************************************)
TicksPerSecond == 2      \* clock ticks per second of the RFC3339 format
SecondsPerDay == 1       \* seconds per calendar day (scaled down)
MaxRuns == 3             \* runs of the process explored when every call succeeds
MaxFaultyRuns == 2       \* runs of the process explored when calls may fail
MaxParents == 2          \* values of nrfParentRoles per role entry
MaxFaults == 1           \* failing directory / database calls that are explored
MaxFairRuns == 1         \* runs of the process explored when checking progress
MaxStartupRuns == 2      \* runs of the process explored with failing starts and dry runs
MaxResyncRuns == 2       \* runs of the process explored before a repeated role synchronization
MaxLocalizedLen == 5     \* characters of a localized-text attribute value
MaxRefLen == 4           \* characters of an entitlement reference without XML fragment
MaxChildren == 2         \* child elements of the XML fragments explored
MaxMembers == 2          \* members of the JSON objects explored
MaxDecodeRuns == 1       \* runs of the process explored per decoded entry
MaxContent == 1          \* characters between the quotes of a JSON string literal
MaxRepassRuns == 2       \* runs of the process explored before a repeated lifecycle pass
MaxLifecycleRuns == 3    \* runs of the process explored when lifecycle statements may fail
MaxEventualRuns == 3     \* runs of the process explored when checking the eventual purge
MaxRetentionRuns == 2    \* runs of the process explored with a zero or negative retention
MaxEntries == 2          \* entries of the serialized localized-text maps explored

TicksPerDay == TicksPerSecond * SecondsPerDay

RoleDNs == {"R1", "R2"}
\* the roles an entry may name in nrfParentRoles: R2 is a root, R1 may name R2
ParentRefs(dn) == IF dn = "R1" THEN {"R2"} ELSE {}
ResourceDNs == {"S1"}
AssociationDNs == {"A1"}

\* the ordered list `tables` of markAndPurge
tables == <<"viz_roles", "viz_resources", "viz_roles_resources">>
Tables == {tables[i] : i \in 1..Len(tables)}

\* PURGE_AGE_IN_DAYS values explored; 7 is the default of initConfig
DefaultPurgeAge == 7
PurgeAges == {0, DefaultPurgeAge, 2 * DefaultPurgeAge}

\* PURGE_AGE_IN_DAYS is read with fmt.Sscan into an int: zero and negative values
\* are accepted as they are
Retentions == {0 - DefaultPurgeAge, 0 - 1, 0, DefaultPurgeAge}

\* wall-clock time that passes between the watermark of one run and the next
Advance == {1, 10 * TicksPerDay}

\* how the search of a synchronizer ended: not made yet, an error, or a list of entries
NotRun == "not run"
LdapError == "LDAP-Suchfehler"
Found == "found"

\* the log.Fatal calls of initConfig, main and createTables, in program order;
\* a dry run makes only those before the database is opened
LdapFatals == <<"LDAP_HOST, LDAP_USERNAME, LDAP_PASSWORD", "ldap.DialURL", "ldapConn.Bind">>
DbConfigFatal == "DB_HOST, DBUSER, DB_PASSWORD"
DbFatals ==
    <<"sql.Open", "db.Ping", "CREATE TABLE viz_roles", "CREATE TABLE viz_roles_parents",
      "CREATE TABLE viz_resources", "CREATE TABLE viz_roles_resources">>
FatalCauses(dry) ==
    {LdapFatals[i] : i \in 1..Len(LdapFatals)}
        \cup (IF dry THEN {} ELSE {DbConfigFatal} \cup {DbFatals[i] : i \in 1..Len(DbFatals)})

(***************************************************************************)
(* Time.                                                                   *)
(***************************************************************************)
\* time.Time.Format(time.RFC3339) as read back by the database: whole seconds
Format(t) == t \div TicksPerSecond

\* a date computation with the sign of the day count reversed
AddDateReversed(t, days) == t - days * TicksPerDay

\* time.Time.AddDate(0, 0, days)
AddDate(t, days) == t + days * TicksPerDay

\* a timestamp read from the clock again by each callee of main(), a second having
\* passed since the previous one read it
timestampStrOfCallee ==
    LET calls == <<"syncRoles", "syncResources", "syncAssociations", "mark", "purge">>
        nth == IF \E i \in 1..Len(calls) : calls[i] = pc
               THEN CHOOSE i \in 1..Len(calls) : calls[i] = pc ELSE 1
    IN  Format(syncStartTimestamp + (nth - 1) * TicksPerSecond)

\* timestampStr of markAndPurge and of the three synchronizers
timestampStr == Format(syncStartTimestamp)

\* a purge cutoff that forgets the retention and uses the watermark itself
purgeTimestampNoRetention == Format(syncStartTimestamp)

\* purgeTimestamp of markAndPurge
purgeTimestamp == Format(AddDate(syncStartTimestamp, 0 - purgeAgeInDays))

(***************************************************************************)
(* Tables and rows.                                                        *)
(***************************************************************************)
EmptyTable == [dn \in {} |-> 0]

NewRow(ts) == [created_at |-> ts, updated_at |-> ts, is_deleted |-> FALSE]

\* an upsert whose DO UPDATE clause also sets created_at
UpsertResetsCreated(tbl, dn, ts) == (dn :> NewRow(ts)) @@ tbl

\* an upsert whose DO UPDATE clause forgets is_deleted = FALSE
UpsertKeepsFlag(tbl, dn, ts) ==
    IF dn \in DOMAIN tbl
    THEN [tbl EXCEPT ![dn].updated_at = ts]
    ELSE (dn :> NewRow(ts)) @@ tbl

\* INSERT ... ON CONFLICT (dn) DO UPDATE SET ..., updated_at = ts, is_deleted = FALSE
Upsert(tbl, dn, ts) ==
    IF dn \in DOMAIN tbl
    THEN [tbl EXCEPT ![dn].updated_at = ts, ![dn].is_deleted = FALSE]
    ELSE (dn :> NewRow(ts)) @@ tbl

\* a mark statement that compares with <= instead of <
MarkStaleInclusive(tbl, ts) ==
    [dn \in DOMAIN tbl |->
        IF tbl[dn].updated_at <= ts THEN [tbl[dn] EXCEPT !.is_deleted = TRUE]
        ELSE tbl[dn]]

\* a mark statement that also stamps the rows it flags with the watermark
MarkStaleTouches(tbl, ts) ==
    [dn \in DOMAIN tbl |->
        IF tbl[dn].updated_at < ts
        THEN [tbl[dn] EXCEPT !.is_deleted = TRUE, !.updated_at = ts]
        ELSE tbl[dn]]

\* UPDATE <table> SET is_deleted = TRUE WHERE updated_at < ts
MarkStale(tbl, ts) ==
    [dn \in DOMAIN tbl |->
        IF tbl[dn].updated_at < ts THEN [tbl[dn] EXCEPT !.is_deleted = TRUE]
        ELSE tbl[dn]]

\* the rows matched by DELETE FROM <table> WHERE is_deleted = TRUE AND updated_at < cutoff
PurgeMatch(tbl, cutoff) ==
    {dn \in DOMAIN tbl : tbl[dn].is_deleted /\ tbl[dn].updated_at < cutoff}

\* a purge statement that deletes in batches of one row
PurgeOldOneRow(tbl, cutoff) ==
    LET match == PurgeMatch(tbl, cutoff)
        batch == IF match = {} THEN {} ELSE {CHOOSE dn \in match : TRUE}
    IN  [dn \in DOMAIN tbl \ batch |-> tbl[dn]]

\* a purge statement that selects by age alone
PurgeOldAnyRow(tbl, cutoff) ==
    [dn \in {d \in DOMAIN tbl : tbl[d].updated_at >= cutoff} |-> tbl[dn]]

\* DELETE FROM <table> WHERE is_deleted = TRUE AND updated_at < cutoff
PurgeOld(tbl, cutoff) ==
    [dn \in DOMAIN tbl \ PurgeMatch(tbl, cutoff) |-> tbl[dn]]

\* a junction table whose parent_dn column lacks ON DELETE CASCADE
CascadeChildOnly(parents, roles) == {p \in parents : p[1] \in DOMAIN roles}

\* a junction table declared without ON DELETE CASCADE
CascadeMissing(parents, roles) == parents

\* ON DELETE CASCADE of viz_roles_parents.child_dn and .parent_dn
Cascade(parents, roles) ==
    {p \in parents : p[1] \in DOMAIN roles /\ p[2] \in DOMAIN roles}

\* an association table whose nrfRole and nrfResource reference the other two tables
AssociationKeyEnforced(roles, resources, e) ==
    e.nrfRole \in DOMAIN roles /\ e.nrfResource \in DOMAIN resources

\* viz_roles_resources declares nrfRole and nrfResource as plain TEXT columns
AssociationKeyOk(roles, resources, e) == TRUE

\* a junction table declared without REFERENCES viz_roles(dn)
ForeignKeyUnchecked(roles, child, parent) == TRUE

\* REFERENCES viz_roles(dn) on both columns of viz_roles_parents
ForeignKeyOk(roles, child, parent) ==
    child \in DOMAIN roles /\ parent \in DOMAIN roles

(***************************************************************************)
(* What the directory can return.                                          *)
(***************************************************************************)
SeqUpTo(S, n) == UNION {[1..k -> S] : k \in 0..n}

DistinctDNs(s) == \A i, j \in 1..Len(s) : i # j => s[i].DN # s[j].DN

RoleEntry ==
    UNION {[DN : {dn}, nrfParentRoles : SeqUpTo(ParentRefs(dn), MaxParents)] : dn \in RoleDNs}

RoleResults == {s \in SeqUpTo(RoleEntry, Cardinality(RoleDNs)) : DistinctDNs(s)}

ResourceResults ==
    {s \in SeqUpTo([DN : ResourceDNs], Cardinality(ResourceDNs)) : DistinctDNs(s)}

\* an association entry names a role and a resource, in the directory or not
AssociationEntry == [DN : AssociationDNs, nrfRole : RoleDNs, nrfResource : ResourceDNs]

AssociationResults ==
    {s \in SeqUpTo(AssociationEntry, Cardinality(AssociationDNs)) : DistinctDNs(s)}

\* the dns of a search result
DNsOf(es) == {es[i].DN : i \in 1..Len(es)}

\* the (child, parent) statements of phase 2, in execution order
RECURSIVE ParentPairs(_)
ParentPairs(es) ==
    IF es = <<>> THEN <<>>
    ELSE [j \in 1..Len(Head(es).nrfParentRoles) |->
             <<Head(es).DN, Head(es).nrfParentRoles[j]>>] \o ParentPairs(Tail(es))

\* the distinct pairs among the inserts of phase 2
PairSet(stmts) == {stmts[j] : j \in 1..Len(stmts)}

(***************************************************************************)
(* The transactions of the synchronizers.  failAt = 0: no statement fails  *)
(* for a reason outside the model; failAt = k: the k-th call on the        *)
(* transaction (Begin, Prepare, Exec ..., Commit) returns an error.        *)
(***************************************************************************)
\* a return that leaves the statements executed so far in place
RollbackKeepsWork(orig, work) == work

\* tx.Rollback(): the committed state stays what it was when the transaction began
Rollback(orig, work) == orig

\* phase 1 of syncRoles, and the loops of syncResources and syncAssociations:
\* one upsert per entry, stopping at the first failing statement (number base + i)
RECURSIVE UpsertAll(_, _, _, _, _, _)
UpsertAll(tbl, es, i, ts, base, failAt) ==
    IF i > Len(es) THEN [tbl |-> tbl, err |-> FALSE]
    ELSE IF failAt = base + i THEN [tbl |-> tbl, err |-> TRUE]
    ELSE UpsertAll(Upsert(tbl, es[i].DN, ts), es, i + 1, ts, base, failAt)

\* INSERT INTO viz_roles_parents (child_dn, parent_dn) ... ON CONFLICT DO NOTHING,
\* one per pair, stopping at the first foreign-key violation or failing statement
RECURSIVE InsertParents(_, _, _, _, _, _)
InsertParents(roles, parents, pairs, j, base, failAt) ==
    IF j > Len(pairs) THEN [parents |-> parents, err |-> FALSE]
    ELSE IF failAt = base + j \/ ~ForeignKeyOk(roles, pairs[j][1], pairs[j][2])
         THEN [parents |-> parents, err |-> TRUE]
    ELSE InsertParents(roles, parents \cup {pairs[j]}, pairs, j + 1, base, failAt)

\* number of calls on the transaction of syncRoles for a search result
RoleStmts(es) == Len(es) + Len(ParentPairs(es)) + 5

\* a phase 2 that skips DELETE FROM viz_roles_parents and only adds this run's pairs
syncRolesTxKeepsParents(roles, parents, es, ts, failAt) ==
    LET p1 == UpsertAll(roles, es, 1, ts, 2, failAt)
        p2 == InsertParents(p1.tbl, parents, ParentPairs(es), 1, Len(es) + 4, failAt)
    IN  IF failAt # 0 \/ p1.err \/ p2.err
        THEN [roles |-> roles, parents |-> parents, ok |-> FALSE, rowErr |-> TRUE]
        ELSE [roles |-> p1.tbl, parents |-> p2.parents, ok |-> TRUE, rowErr |-> FALSE]

\* a single loop that inserts the parent pairs of each entry right after its upsert
RECURSIVE UpsertWithParents(_, _, _, _, _)
UpsertWithParents(roles, parents, es, i, ts) ==
    IF i > Len(es) THEN [roles |-> roles, parents |-> parents, err |-> FALSE]
    ELSE LET upserted == Upsert(roles, es[i].DN, ts)
             p2 == InsertParents(upserted, parents, ParentPairs(<<es[i]>>), 1, 0, 0)
         IN  IF p2.err THEN [roles |-> upserted, parents |-> p2.parents, err |-> TRUE]
             ELSE UpsertWithParents(upserted, p2.parents, es, i + 1, ts)

\* a role synchronizer without phases: one loop over the entries
syncRolesTxOnePhase(roles, parents, es, ts, failAt) ==
    LET tx == UpsertWithParents(roles, {}, es, 1, ts)
    IN  IF failAt # 0 \/ tx.err
        THEN [roles |-> roles, parents |-> parents, ok |-> FALSE, rowErr |-> TRUE]
        ELSE [roles |-> tx.roles, parents |-> tx.parents, ok |-> TRUE, rowErr |-> FALSE]

\* the transaction of syncRoles: what is committed when it returns
syncRolesTx(roles, parents, es, ts, failAt) ==
    LET n == Len(es)
        pairs == ParentPairs(es)
        orig == [roles |-> roles, parents |-> parents]
        p1 == UpsertAll(roles, es, 1, ts, 2, failAt)
        \* DELETE FROM viz_roles_parents is statement n + 3, the Prepare n + 4
        p2 == InsertParents(p1.tbl, {}, pairs, 1, n + 4, failAt)
        ended(db, ok, rowErr) ==
            [roles |-> db.roles, parents |-> db.parents, ok |-> ok, rowErr |-> rowErr]
    IN  IF failAt \in {1, 2} THEN ended(orig, FALSE, FALSE)
        ELSE IF p1.err
             THEN ended(Rollback(orig, [roles |-> p1.tbl, parents |-> parents]), FALSE, TRUE)
        ELSE IF failAt = n + 3
             THEN ended(Rollback(orig, [roles |-> p1.tbl, parents |-> parents]), FALSE, TRUE)
        ELSE IF failAt = n + 4
             THEN ended(Rollback(orig, [roles |-> p1.tbl, parents |-> {}]), FALSE, FALSE)
        ELSE IF p2.err
             THEN ended(Rollback(orig, [roles |-> p1.tbl, parents |-> p2.parents]), FALSE, TRUE)
        ELSE IF failAt = n + Len(pairs) + 5
             THEN ended(Rollback(orig, [roles |-> p1.tbl, parents |-> p2.parents]), FALSE, FALSE)
        ELSE ended([roles |-> p1.tbl, parents |-> p2.parents], TRUE, FALSE)

\* number of calls on the transaction of syncResources / syncAssociations
UpsertStmts(es) == Len(es) + 3

\* a synchronizer that replaces the content of its table by the search result
syncReplaceTx(tbl, es, ts, failAt) ==
    LET p1 == UpsertAll(EmptyTable, es, 1, ts, 2, failAt)
    IN  IF failAt # 0 \/ p1.err THEN [tbl |-> tbl, ok |-> FALSE, rowErr |-> p1.err]
        ELSE [tbl |-> p1.tbl, ok |-> TRUE, rowErr |-> FALSE]

\* the transaction of syncResources and of syncAssociations
syncUpsertTx(tbl, es, ts, failAt) ==
    LET orig == [tbl |-> tbl]
        p1 == UpsertAll(tbl, es, 1, ts, 2, failAt)
        ended(db, ok, rowErr) == [tbl |-> db.tbl, ok |-> ok, rowErr |-> rowErr]
    IN  IF failAt \in {1, 2} THEN ended(orig, FALSE, FALSE)
        ELSE IF p1.err THEN ended(Rollback(orig, [tbl |-> p1.tbl]), FALSE, TRUE)
        ELSE IF failAt = Len(es) + 3 THEN ended(Rollback(orig, [tbl |-> p1.tbl]), FALSE, FALSE)
        ELSE ended([tbl |-> p1.tbl], TRUE, FALSE)

\* the transaction of syncAssociations: its first failing call is failAt or the
\* first upsert the table's constraints reject
syncAssociationsTx(roles, resources, tbl, es, ts, failAt) ==
    LET bad == {i \in 1..Len(es) : ~AssociationKeyOk(roles, resources, es[i])}
        firstBad == IF bad = {} THEN 0 ELSE 2 + CHOOSE i \in bad : \A j \in bad : i <= j
        at == IF failAt # 0 /\ (firstBad = 0 \/ failAt <= firstBad) THEN failAt ELSE firstBad
    IN  syncUpsertTx(tbl, es, ts, at)

(***************************************************************************)
(* History kept for stating the properties.                                *)
(***************************************************************************)
Snapshot ==
    [viz_roles |-> viz_roles, viz_roles_parents |-> viz_roles_parents,
     viz_resources |-> viz_resources, viz_roles_resources |-> viz_roles_resources]

\* the watermark at which each soft-deleted row of a table was flagged
Flagged(old, new, f, ts) ==
    [dn \in {d \in DOMAIN new : new[d].is_deleted} |->
        IF dn \in DOMAIN f /\ dn \in DOMAIN old /\ old[dn].is_deleted THEN f[dn] ELSE ts]

NoneRun == [t \in Tables |-> NotRun]
NoneFetched == [t \in Tables |-> {}]
AllFalse == [t \in Tables |-> FALSE]

\* processes of the program that run at overlapping times
Processes == {"p1", "p2"}

\* none of them has been started
NoRival ==
    [p \in Processes |->
        [pc |-> "absent", syncStartTimestamp |-> 0, fetched |-> NoneFetched,
         committed |-> AllFalse, last |-> AllFalse]]

(***************************************************************************)
(* The steps of main().                                                    *)
(***************************************************************************)
InitStore ==
    /\ now = 0
    /\ pc = "idle"
    /\ syncStartTimestamp = 0
    /\ dryRun = FALSE
    /\ fatal = ""
    /\ viz_roles = EmptyTable
    /\ viz_roles_parents = {}
    /\ viz_resources = EmptyTable
    /\ viz_roles_resources = EmptyTable
    /\ searched = NoneRun
    /\ fetched = NoneFetched
    /\ parentStmts = <<>>
    /\ committed = AllFalse
    /\ rowFailed = AllFalse
    /\ marked = AllFalse
    /\ purged = AllFalse
    /\ before = Snapshot
    /\ flaggedAt = [t \in Tables |-> EmptyTable]
    /\ columns = <<>>
    /\ rival = NoRival

\* a deployment in which every directory and database call succeeds
Init ==
    /\ InitStore
    /\ entry = <<>>
    /\ purgeAgeInDays \in PurgeAges
    /\ runs = MaxRuns
    /\ faults = 0

\* a deployment in which directory and database calls may fail
InitFaulty ==
    /\ InitStore
    /\ entry = <<>>
    /\ purgeAgeInDays = DefaultPurgeAge
    /\ runs = MaxFaultyRuns
    /\ faults = MaxFaults

\* a deployment in which calls may fail, explored for the progress of a run
InitFair ==
    /\ InitStore
    /\ entry = <<>>
    /\ purgeAgeInDays = DefaultPurgeAge
    /\ runs = MaxFairRuns
    /\ faults = MaxFaults

\* a deployment in which a start may fail and a run may be a dry run
InitStartup ==
    /\ InitStore
    /\ entry = <<>>
    /\ purgeAgeInDays = DefaultPurgeAge
    /\ runs = MaxStartupRuns
    /\ faults = 0

\* a new process is started, some time after the previous one ended
ProcessStarts ==
    /\ pc \in {"idle", "done", "fatal"}
    /\ runs > 0
    /\ \E d \in Advance : now' = now + d
    /\ searched' = NoneRun
    /\ fetched' = NoneFetched
    /\ parentStmts' = <<>>
    /\ committed' = AllFalse
    /\ rowFailed' = AllFalse
    /\ marked' = AllFalse
    /\ purged' = AllFalse
    /\ before' = Snapshot
    /\ runs' = runs - 1
    /\ UNCHANGED <<purgeAgeInDays, flaggedAt, faults, entry, columns, rival>>

\* a new process starts: initConfig, connect, createTables, syncStartTimestamp := time.Now()
StartRun ==
    /\ ProcessStarts
    /\ syncStartTimestamp' = now'
    /\ dryRun' = FALSE
    /\ fatal' = ""
    /\ pc' = "syncRoles"
    /\ UNCHANGED <<viz_roles, viz_roles_parents, viz_resources, viz_roles_resources>>

\* a start whose createTables drops the tables before it creates them
StartFailsAfterDrop ==
    /\ ProcessStarts
    /\ \E dry \in BOOLEAN : \E cause \in FatalCauses(dry) :
          /\ dryRun' = dry
          /\ fatal' = cause
          /\ IF \E i \in 3..Len(DbFatals) : cause = DbFatals[i]
             THEN /\ viz_roles' = EmptyTable /\ viz_roles_parents' = {}
                  /\ viz_resources' = EmptyTable /\ viz_roles_resources' = EmptyTable
             ELSE UNCHANGED <<viz_roles, viz_roles_parents, viz_resources,
                              viz_roles_resources>>
    /\ pc' = "fatal"
    /\ UNCHANGED syncStartTimestamp

\* a new process starts and ends in one of the log.Fatal calls of initConfig, main
\* or createTables (CREATE TABLE IF NOT EXISTS touches no row)
StartFails ==
    /\ ProcessStarts
    /\ \E dry \in BOOLEAN : \E cause \in FatalCauses(dry) :
          /\ dryRun' = dry
          /\ fatal' = cause
    /\ pc' = "fatal"
    /\ UNCHANGED <<syncStartTimestamp, viz_roles, viz_roles_parents, viz_resources,
                   viz_roles_resources>>

\* a start that reads DRY_RUN but takes the branch of the normal mode all the same
StartDryRunWrites ==
    /\ ProcessStarts
    /\ syncStartTimestamp' = now'
    /\ dryRun' = TRUE
    /\ fatal' = ""
    /\ pc' = "syncRoles"
    /\ UNCHANGED <<viz_roles, viz_roles_parents, viz_resources, viz_roles_resources>>

\* a new process starts with DRY_RUN=true: initConfig, connect and bind to the directory
StartDryRun ==
    /\ ProcessStarts
    /\ dryRun' = TRUE
    /\ fatal' = ""
    /\ pc' = "countRoles"
    /\ UNCHANGED <<syncStartTimestamp, viz_roles, viz_roles_parents, viz_resources,
                   viz_roles_resources>>

\* countRoles, countResources, countAssociations: one search, whose result or error
\* is logged
count(t) ==
    /\ \E outcome \in {Found, LdapError} : searched' = [searched EXCEPT ![t] = outcome]
    /\ UNCHANGED <<now, syncStartTimestamp, purgeAgeInDays, dryRun, fatal, viz_roles,
                   viz_roles_parents, viz_resources, viz_roles_resources, fetched,
                   parentStmts, committed, rowFailed, marked, purged, before, flaggedAt,
                   runs, faults, entry, columns, rival>>

CountRoles == pc = "countRoles" /\ count("viz_roles") /\ pc' = "countResources"

CountResources == pc = "countResources" /\ count("viz_resources") /\ pc' = "countAssociations"

CountAssociations == pc = "countAssociations" /\ count("viz_roles_resources") /\ pc' = "done"

\* a synchronizer that empties the junction table before it looks at the search error
searchFailsAfterDelete(t) ==
    /\ searched' = [searched EXCEPT ![t] = LdapError]
    /\ viz_roles_parents' = IF t = "viz_roles" THEN {} ELSE viz_roles_parents
    /\ UNCHANGED <<viz_roles, viz_resources, viz_roles_resources,
                   fetched, parentStmts, committed, rowFailed, flaggedAt>>

\* ldapSearch returned an error: the synchronizer logs it and returns
searchFails(t) ==
    /\ searched' = [searched EXCEPT ![t] = LdapError]
    /\ UNCHANGED <<viz_roles, viz_roles_parents, viz_resources, viz_roles_resources,
                   fetched, parentStmts, committed, rowFailed, flaggedAt>>

\* syncRoles once ldapSearch returned the entries es
syncRoles(es, failAt) ==
    LET tx == syncRolesTx(viz_roles, viz_roles_parents, es, timestampStr, failAt)
    IN  /\ searched' = [searched EXCEPT !["viz_roles"] = Found]
        /\ fetched' = [fetched EXCEPT !["viz_roles"] = DNsOf(es)]
        /\ parentStmts' = ParentPairs(es)
        /\ viz_roles' = tx.roles
        /\ viz_roles_parents' = tx.parents
        /\ committed' = [committed EXCEPT !["viz_roles"] = tx.ok]
        /\ rowFailed' = [rowFailed EXCEPT !["viz_roles"] = tx.rowErr]
        /\ flaggedAt' = [flaggedAt EXCEPT !["viz_roles"] =
                            Flagged(viz_roles, tx.roles, @, timestampStr)]
        /\ UNCHANGED <<viz_resources, viz_roles_resources>>

\* syncResources once ldapSearch returned the entries es
syncResources(es, failAt) ==
    LET tx == syncUpsertTx(viz_resources, es, timestampStr, failAt)
    IN  /\ searched' = [searched EXCEPT !["viz_resources"] = Found]
        /\ fetched' = [fetched EXCEPT !["viz_resources"] = DNsOf(es)]
        /\ viz_resources' = tx.tbl
        /\ committed' = [committed EXCEPT !["viz_resources"] = tx.ok]
        /\ rowFailed' = [rowFailed EXCEPT !["viz_resources"] = tx.rowErr]
        /\ flaggedAt' = [flaggedAt EXCEPT !["viz_resources"] =
                            Flagged(viz_resources, tx.tbl, @, timestampStr)]
        /\ UNCHANGED <<viz_roles, viz_roles_parents, viz_roles_resources, parentStmts>>

\* syncAssociations once ldapSearch returned the entries es
syncAssociations(es, failAt) ==
    LET tx == syncAssociationsTx(viz_roles, viz_resources, viz_roles_resources, es,
                                 timestampStr, failAt)
    IN  /\ searched' = [searched EXCEPT !["viz_roles_resources"] = Found]
        /\ fetched' = [fetched EXCEPT !["viz_roles_resources"] = DNsOf(es)]
        /\ viz_roles_resources' = tx.tbl
        /\ committed' = [committed EXCEPT !["viz_roles_resources"] = tx.ok]
        /\ rowFailed' = [rowFailed EXCEPT !["viz_roles_resources"] = tx.rowErr]
        /\ flaggedAt' = [flaggedAt EXCEPT !["viz_roles_resources"] =
                            Flagged(viz_roles_resources, tx.tbl, @, timestampStr)]
        /\ UNCHANGED <<viz_roles, viz_roles_parents, viz_resources, parentStmts>>

\* what main() leaves alone while a synchronizer runs
SyncFrame ==
    UNCHANGED <<now, syncStartTimestamp, purgeAgeInDays, dryRun, fatal, marked, purged, before,
                runs>>

\* syncRoles(ldapConn, db, syncStartTimestamp), every call succeeding
SyncRoles ==
    /\ pc = "syncRoles"
    /\ \E es \in RoleResults : syncRoles(es, 0)
    /\ pc' = "syncResources"
    /\ SyncFrame /\ UNCHANGED <<faults, entry, columns, rival>>

\* a role synchronizer whose failure ends the run
SyncRolesFailsEndsRun ==
    /\ pc = "syncRoles"
    /\ faults > 0
    /\ \/ searchFails("viz_roles")
       \/ \E es \in RoleResults : \E failAt \in 1..RoleStmts(es) : syncRoles(es, failAt)
    /\ pc' = "done"
    /\ faults' = faults - 1
    /\ SyncFrame /\ UNCHANGED <<entry, columns, rival>>

\* syncRoles with a failing search or a failing call on its transaction
SyncRolesFails ==
    /\ pc = "syncRoles"
    /\ faults > 0
    /\ \/ searchFails("viz_roles")
       \/ \E es \in RoleResults : \E failAt \in 1..RoleStmts(es) : syncRoles(es, failAt)
    /\ pc' = "syncResources"
    /\ faults' = faults - 1
    /\ SyncFrame /\ UNCHANGED <<entry, columns, rival>>

\* syncResources(ldapConn, db, syncStartTimestamp), every call succeeding
SyncResources ==
    /\ pc = "syncResources"
    /\ \E es \in ResourceResults : syncResources(es, 0)
    /\ pc' = "syncAssociations"
    /\ SyncFrame /\ UNCHANGED <<faults, entry, columns, rival>>

\* syncResources with a failing search or a failing call on its transaction
SyncResourcesFails ==
    /\ pc = "syncResources"
    /\ faults > 0
    /\ \/ searchFails("viz_resources")
       \/ \E es \in ResourceResults : \E failAt \in 1..UpsertStmts(es) :
             syncResources(es, failAt)
    /\ pc' = "syncAssociations"
    /\ faults' = faults - 1
    /\ SyncFrame /\ UNCHANGED <<entry, columns, rival>>

\* syncAssociations(ldapConn, db, syncStartTimestamp), every call succeeding
SyncAssociations ==
    /\ pc = "syncAssociations"
    /\ \E es \in AssociationResults : syncAssociations(es, 0)
    /\ pc' = "mark"
    /\ SyncFrame /\ UNCHANGED <<faults, entry, columns, rival>>

\* syncAssociations with a failing search or a failing call on its transaction
SyncAssociationsFails ==
    /\ pc = "syncAssociations"
    /\ faults > 0
    /\ \/ searchFails("viz_roles_resources")
       \/ \E es \in AssociationResults : \E failAt \in 1..UpsertStmts(es) :
             syncAssociations(es, failAt)
    /\ pc' = "mark"
    /\ faults' = faults - 1
    /\ SyncFrame /\ UNCHANGED <<entry, columns, rival>>

\* the table a name of `tables` denotes
Table(t) ==
    CASE t = "viz_roles" -> viz_roles
      [] t = "viz_resources" -> viz_resources
      [] t = "viz_roles_resources" -> viz_roles_resources

\* the non-empty sets of tables whose statement may fail in one loop of markAndPurge
FailSets == {F \in SUBSET Tables : F # {} /\ Cardinality(F) <= faults}

\* the statement one loop of markAndPurge runs on each table
Statement(loop, tbl) ==
    IF loop = "mark" THEN MarkStale(tbl, timestampStr) ELSE PurgeOld(tbl, purgeTimestamp)

\* the n for which tables[n] = t
Position(t) == CHOOSE n \in 1..Len(tables) : tables[n] = t

\* a loop that returns at the first error instead of continuing with the next table
WrittenUntilError(loop, F) ==
    LET stopped(t) == \E u \in F : Position(u) <= Position(t)
        new(t) == IF stopped(t) THEN Table(t) ELSE Statement(loop, Table(t))
    IN  /\ viz_roles' = new("viz_roles")
        /\ viz_resources' = new("viz_resources")
        /\ viz_roles_resources' = new("viz_roles_resources")
        /\ viz_roles_parents' = Cascade(viz_roles_parents, new("viz_roles"))
        /\ flaggedAt' = [t \in Tables |->
                            Flagged(Table(t), new(t), flaggedAt[t], timestampStr)]
        /\ faults' = faults - Cardinality(F)

\* one loop of markAndPurge: its statement runs on each table in turn; on the tables
\* in F it returns an error, which is logged before the loop continues
Written(loop, F) ==
    LET new(t) == IF t \in F THEN Table(t) ELSE Statement(loop, Table(t))
    IN  /\ viz_roles' = new("viz_roles")
        /\ viz_resources' = new("viz_resources")
        /\ viz_roles_resources' = new("viz_roles_resources")
        /\ viz_roles_parents' = Cascade(viz_roles_parents, new("viz_roles"))
        /\ flaggedAt' = [t \in Tables |->
                            Flagged(Table(t), new(t), flaggedAt[t], timestampStr)]
        /\ faults' = faults - Cardinality(F)

\* the first loop of markAndPurge
markLoop(F) ==
    /\ Written("mark", F)
    /\ marked' = [t \in Tables |-> t \notin F]
    /\ pc' = "purge"
    /\ UNCHANGED <<now, syncStartTimestamp, purgeAgeInDays, dryRun, fatal, searched, fetched,
                   parentStmts,
                   committed, rowFailed, purged, before, runs, entry, columns, rival>>

\* the second loop of markAndPurge
purgeLoop(F) ==
    /\ Written("purge", F)
    /\ purged' = [t \in Tables |-> t \notin F]
    /\ pc' = "done"
    /\ UNCHANGED <<now, syncStartTimestamp, purgeAgeInDays, dryRun, fatal, searched, fetched,
                   parentStmts,
                   committed, rowFailed, marked, before, runs, entry, columns, rival>>

\* a main() that may call markAndPurge before syncAssociations
MarkBeforeAssociations == pc \in {"syncAssociations", "mark"} /\ markLoop({})

\* markAndPurge, mark step: UPDATE ... SET is_deleted = TRUE on the three tables
Mark == pc = "mark" /\ markLoop({})

\* the mark step with the UPDATE failing on some tables
MarkFails == pc = "mark" /\ \E F \in FailSets : markLoop(F)

\* markAndPurge, purge step: DELETE on the three tables
Purge == pc = "purge" /\ purgeLoop({})

\* the purge step with the DELETE failing on some tables
PurgeFails == pc = "purge" /\ \E F \in FailSets : purgeLoop(F)

Next == StartRun \/ SyncRoles \/ SyncResources \/ SyncAssociations \/ Mark \/ Purge

NextFaulty ==
    \/ Next
    \/ SyncRolesFails \/ SyncResourcesFails \/ SyncAssociationsFails
    \/ MarkFails \/ PurgeFails

\* the runs of the process while every directory and database call succeeds
Spec == Init /\ [][Next]_vars

\* the runs of the process while directory and database calls may fail
SpecFaulty == InitFaulty /\ [][NextFaulty]_vars

\* a store on which the role synchronization is going to be repeated
InitResync ==
    /\ InitStore
    /\ entry = <<>>
    /\ purgeAgeInDays = DefaultPurgeAge
    /\ runs = MaxResyncRuns
    /\ faults = 0

\* syncRoles has returned and is about to be called again, with a later timestamp,
\* on the directory data it has just read
RepeatSyncRoles ==
    /\ pc = "syncResources"
    /\ \E d \in Advance :
          /\ now' = now + d
          /\ syncStartTimestamp' = now + d
    /\ before' = Snapshot
    /\ pc' = "syncRolesAgain"
    /\ UNCHANGED <<purgeAgeInDays, dryRun, fatal, viz_roles, viz_roles_parents, viz_resources,
                   viz_roles_resources, searched, fetched, parentStmts, committed, rowFailed,
                   marked, purged, flaggedAt, runs, faults, entry, columns, rival>>

\* the second call of syncRoles: the search returns the roles and parent references
\* it returned to the first call
SyncRolesAgain ==
    /\ pc = "syncRolesAgain"
    /\ \E es \in RoleResults :
          /\ DNsOf(es) = fetched["viz_roles"]
          /\ ParentPairs(es) = parentStmts
          /\ syncRoles(es, 0)
    /\ pc' = "resynced"
    /\ SyncFrame /\ UNCHANGED <<faults, entry, columns, rival>>

NextResync == Next \/ RepeatSyncRoles \/ SyncRolesAgain

\* runs of the process, after one of which the role synchronization is repeated
SpecResync == InitResync /\ [][NextResync]_vars

NextStartup ==
    \/ Next
    \/ StartFails
    \/ StartDryRun \/ CountRoles \/ CountResources \/ CountAssociations

\* the runs of the process while a start may fail and a run may be a dry run
SpecStartup == InitStartup /\ [][NextStartup]_vars

\* the statements of main() after the watermark is taken: a call that was made
\* returns, and main() goes on to its next statement
RunStep ==
    \/ SyncRoles \/ SyncRolesFails
    \/ SyncResources \/ SyncResourcesFails
    \/ SyncAssociations \/ SyncAssociationsFails
    \/ Mark \/ MarkFails
    \/ Purge \/ PurgeFails

\* the runs of the process while calls may fail, a started run going on to its end
SpecFaultyFair == InitFair /\ [][NextFaulty]_vars /\ WF_vars(RunStep)

(***************************************************************************)
(* Attribute values and their decoders.  A string is the sequence of its   *)
(* characters.                                                             *)
(***************************************************************************)
\* strings.Index(s, sep) for a separator of one character, counted from 1; 0: absent
Index(s, sep) ==
    IF \E i \in 1..Len(s) : s[i] = sep
    THEN CHOOSE i \in 1..Len(s) : s[i] = sep /\ \A j \in 1..(i - 1) : s[j] # sep
    ELSE 0

\* strings.Contains(s, sep)
Contains(s, sep) == Index(s, sep) # 0

\* a split that ignores the count and cuts at every separator
RECURSIVE SplitAtEvery(_, _, _)
SplitAtEvery(s, sep, n) ==
    IF Index(s, sep) = 0 THEN <<s>>
    ELSE <<SubSeq(s, 1, Index(s, sep) - 1)>>
            \o SplitAtEvery(SubSeq(s, Index(s, sep) + 1, Len(s)), sep, n)

\* strings.SplitN(s, sep, n): at most n substrings, the last one the unsplit rest;
\* n < 0: all of them
RECURSIVE SplitN(_, _, _)
SplitN(s, sep, n) ==
    IF n = 0 THEN <<>>
    ELSE IF n = 1 \/ Index(s, sep) = 0 THEN <<s>>
    ELSE <<SubSeq(s, 1, Index(s, sep) - 1)>>
            \o SplitN(SubSeq(s, Index(s, sep) + 1, Len(s)), sep, n - 1)

\* strings.Split(s, sep)
Split(s, sep) == SplitN(s, sep, 0 - 1)

\* the characters of the localized-text values explored
LocalizedChars == {"|", "~", "d", "e"}
LocalizedStrings == SeqUpTo(LocalizedChars, MaxLocalizedLen)

\* the loop of parseLocalizedAttributes over parts, from the map result
RECURSIVE localizedParts(_, _)
localizedParts(parts, result) ==
    IF parts = <<>> THEN result
    ELSE LET part == Head(parts)
             split == SplitN(part, "~", 2)
         IN  localizedParts(Tail(parts),
                            IF Contains(part, "~")
                            THEN (split[1] :> split[2]) @@ result
                            ELSE result)

\* parseLocalizedAttributes(localizedString): a map from language to text
parseLocalizedAttributes(localizedString) ==
    IF localizedString = <<>> THEN <<>>
    ELSE localizedParts(Split(localizedString, "|"), <<>>)

\* a process that is given one localized-text value to decode
InitLocalized ==
    /\ InitStore
    /\ purgeAgeInDays = DefaultPurgeAge
    /\ runs = 0
    /\ faults = 0
    /\ entry \in [nrfLocalizedNames : LocalizedStrings]

\* parseLocalizedAttributes(nrfLocalizedNames) returns
ParseLocalized ==
    /\ pc = "idle"
    /\ columns' = [nrfLocalizedNames |-> parseLocalizedAttributes(entry.nrfLocalizedNames)]
    /\ pc' = "parsed"
    /\ UNCHANGED <<now, syncStartTimestamp, purgeAgeInDays, dryRun, fatal, viz_roles,
                   viz_roles_parents, viz_resources, viz_roles_resources, searched, fetched,
                   parentStmts, committed, rowFailed, marked, purged, before, flaggedAt,
                   runs, faults, entry, rival>>

NextLocalized == ParseLocalized

\* the calls of parseLocalizedAttributes on every value up to MaxLocalizedLen
SpecLocalized == InitLocalized /\ [][NextLocalized]_vars

(***************************************************************************)
(* XML and JSON texts.  A tag, an entity, and in the param text of an      *)
(* entitlement a member name with its colon and a JSON literal, each count *)
(* as one character of a string.                                           *)
(***************************************************************************)
XmlNames == {"ref", "src", "id", "param", "parameter", "value"}
Open(n) == "<" \o n \o ">"
Close(n) == "</" \o n \o ">"
IsOpen(c) == \E n \in XmlNames : c = Open(n)
IsClose(c) == \E n \in XmlNames : c = Close(n)
NameOf(c) == CHOOSE n \in XmlNames : c = Open(n) \/ c = Close(n)

\* character data as Decoder.Token returns it: a predefined entity stands for its
\* character, also when that character is the '&' of an entity of the text itself
CharData(c) ==
    CASE c = "&quot;" -> "\""
      [] c = "&lt;" -> "<"
      [] c = "&gt;" -> ">"
      [] c = "&amp;" -> "&"
      [] c = "&apos;" -> "'"
      [] c = "&amp;quot;" -> "&quot;"
      [] c = "&amp;lt;" -> "&lt;"
      [] c = "&amp;gt;" -> "&gt;"
      [] c = "&amp;amp;" -> "&amp;"
      [] c = "&amp;apos;" -> "&apos;"
      [] OTHER -> c

\* the content of an element, read by Decoder.Token from position i up to its end
\* tag: the character data directly inside it, and the text of each child by name
\* (a later child of the same name replaces an earlier one); nested elements must
\* be closed by their own end tag, and the input must not end inside the element.
\* On a syntax error what was read so far is kept.
RECURSIVE xmlContent(_, _, _, _, _)
xmlContent(doc, i, name, text, fields) ==
    IF i > Len(doc) THEN [ok |-> FALSE, next |-> i, text |-> text, fields |-> fields]
    ELSE IF IsClose(doc[i])
         THEN [ok |-> doc[i] = Close(name), next |-> i + 1, text |-> text, fields |-> fields]
    ELSE IF IsOpen(doc[i])
         THEN LET child == xmlContent(doc, i + 1, NameOf(doc[i]), <<>>, <<>>)
              IN  IF child.ok
                  THEN xmlContent(doc, child.next, name, text,
                                  (NameOf(doc[i]) :> child.text) @@ fields)
                  ELSE [ok |-> FALSE, next |-> child.next, text |-> text, fields |-> fields]
    ELSE xmlContent(doc, i + 1, name, text \o <<CharData(doc[i])>>, fields)

\* the string field of a struct that xml.Unmarshal fills from the child `name`
xmlField(fields, name) == IF name \in DOMAIN fields THEN fields[name] ELSE <<>>

\* xml.Unmarshal(doc, &v) for a struct v whose XMLName is tagged `root`: character
\* data before the first start tag is skipped, an end tag there or the end of the
\* input is an error, the first element must be named root, and nothing after its
\* end tag is read
xmlUnmarshal(doc, root) ==
    LET tags == {i \in 1..Len(doc) : IsOpen(doc[i]) \/ IsClose(doc[i])}
        first == IF tags = {} THEN 0 ELSE CHOOSE i \in tags : \A j \in tags : i <= j
    IN  IF first = 0 \/ doc[first] # Open(root) THEN [err |-> TRUE, fields |-> <<>>]
        ELSE LET body == xmlContent(doc, first + 1, root, <<>>, <<>>)
             IN  [err |-> ~body.ok, fields |-> body.fields]

\* the member names of EntitlementParamJSON, each written with its colon
JsonKeys == {"\"ID\":", "\"ID2\":", "\"ID3\":"}
\* a JSON string literal and a JSON number
JsonString == "\"a\""
JsonNumber == "5"
\* the text a JSON string literal stands for
Unquote(c) == <<"a">>

\* the members of a JSON object from position i up to its closing brace, decoded
\* into the string fields of a struct: a string value is stored under its name (a
\* later member of the same name replaces an earlier one), a number for a string
\* field is a type error after which decoding goes on, anything else a syntax error
RECURSIVE jsonMembers(_, _, _, _)
jsonMembers(text, i, fields, typeErr) ==
    IF i + 2 > Len(text) \/ text[i] \notin JsonKeys
       \/ text[i + 1] \notin {JsonString, JsonNumber}
    THEN [syntaxErr |-> TRUE, typeErr |-> typeErr, fields |-> fields]
    ELSE LET isString == text[i + 1] = JsonString
             got == IF isString THEN (text[i] :> Unquote(text[i + 1])) @@ fields ELSE fields
             bad == typeErr \/ ~isString
         IN  IF text[i + 2] = "}" /\ i + 2 = Len(text)
             THEN [syntaxErr |-> FALSE, typeErr |-> bad, fields |-> got]
             ELSE IF text[i + 2] = ","
                  THEN jsonMembers(text, i + 3, got, bad)
             ELSE [syntaxErr |-> TRUE, typeErr |-> bad, fields |-> got]

\* json.Unmarshal(text, &param) for var param EntitlementParamJSON: the input is
\* checked for syntax before anything is stored; a value that is not an object is
\* a type error
jsonUnmarshalParam(text) ==
    LET none == [err |-> TRUE, fields |-> <<>>]
    IN  IF text = <<"{", "}">> THEN [err |-> FALSE, fields |-> <<>>]
        ELSE IF text \in {<<JsonString>>, <<JsonNumber>>} THEN none
        ELSE IF Len(text) < 2 \/ text[1] # "{" THEN none
        ELSE LET obj == jsonMembers(text, 2, <<>>, FALSE)
             IN  IF obj.syntaxErr THEN none
                 ELSE [err |-> obj.typeErr, fields |-> obj.fields]

\* a field of EntitlementParamJSON after json.Unmarshal
jsonField(fields, key) == IF key \in DOMAIN fields THEN fields[key] ELSE <<>>

(***************************************************************************)
(* The entitlement reference of a resource.                                *)
(***************************************************************************)
\* a decoder that takes the driver for the status when the status is missing
refStatusOrDriver(refParts) == refParts[IF Len(refParts) > 1 THEN 2 ELSE 1]

\* Schritt 1: entitlementStatus, the second of the parts if there is one
refStatus(refParts) == IF Len(refParts) > 1 THEN refParts[2] ELSE <<>>

\* Schritt 3: the three parameter ids, from the text of the param element
paramIds(Param) ==
    LET param == jsonUnmarshalParam(Param)
    IN  IF Param = <<>> THEN [id |-> <<>>, id2 |-> <<>>, id3 |-> <<>>]
        ELSE IF ~param.err
             THEN [id |-> jsonField(param.fields, "\"ID\":"),
                   id2 |-> jsonField(param.fields, "\"ID2\":"),
                   id3 |-> jsonField(param.fields, "\"ID3\":")]
        ELSE [id |-> Param, id2 |-> <<>>, id3 |-> <<>>]

\* a decoder that uses what xml.Unmarshal filled in without looking at its error
xmlDerivedIgnoresError(entitlementXML) ==
    LET ref == xmlUnmarshal(entitlementXML, "ref")
    IN  [src |-> xmlField(ref.fields, "src"), id |-> xmlField(ref.fields, "id"),
         param |-> paramIds(xmlField(ref.fields, "param"))]

\* Schritt 2: src, id and the parameter ids, from the XML block
xmlDerived(entitlementXML) ==
    LET ref == xmlUnmarshal(entitlementXML, "ref")
        none == [id |-> <<>>, id2 |-> <<>>, id3 |-> <<>>]
    IN  IF entitlementXML # <<>> /\ ~ref.err
        THEN [src |-> xmlField(ref.fields, "src"), id |-> xmlField(ref.fields, "id"),
              param |-> paramIds(xmlField(ref.fields, "param"))]
        ELSE [src |-> <<>>, id |-> <<>>, param |-> none]

\* Schritt 1 to 3 of the loop body of syncResources: the eight entitlement
\* arguments of stmt.Exec for the attribute value nrfEntitlementRef
entitlementColumns(nrfEntitlementRef) ==
    LET refParts == SplitN(nrfEntitlementRef, "#", 3)
        entitlementXML == IF Len(refParts) > 2 THEN refParts[3] ELSE <<>>
        ref == xmlDerived(entitlementXML)
    IN  [entitlement_driver |-> IF Len(refParts) > 0 THEN refParts[1] ELSE <<>>,
         entitlement_status |-> refStatus(refParts),
         entitlement_xml |-> entitlementXML,
         entitlement_xml_src |-> ref.src,
         entitlement_xml_id |-> ref.id,
         entitlement_xml_param_id |-> ref.param.id,
         entitlement_xml_param_id2 |-> ref.param.id2,
         entitlement_xml_param_id3 |-> ref.param.id3]

\* the concatenation of a sequence of strings
RECURSIVE Concat(_)
Concat(ss) == IF ss = <<>> THEN <<>> ELSE Head(ss) \o Concat(Tail(ss))

\* a string with its i-th character left out
Without(s, i) == SubSeq(s, 1, i - 1) \o SubSeq(s, i + 1, Len(s))

\* a set of strings, and every string that lacks one character of one of them
WithDamaged(S) == S \cup UNION {{Without(s, i) : i \in 1..Len(s)} : s \in S}

\* entitlement references without an XML fragment
PlainRefs == SeqUpTo({"#", "d"}, MaxRefLen)

\* JSON objects of up to MaxMembers members, whole and damaged, and other texts
JsonMember == {<<k, v>> : k \in JsonKeys, v \in {JsonString, JsonNumber}}
JsonObject(ms) ==
    <<"{">> \o Concat([i \in 1..Len(ms) |-> IF i = 1 THEN ms[i] ELSE <<",">> \o ms[i]])
            \o <<"}">>
ParamTexts ==
    WithDamaged({JsonObject(ms) : ms \in SeqUpTo(JsonMember, MaxMembers)})
        \cup {<<"d">>, <<JsonString>>, <<JsonNumber>>}

\* XML fragments: a ref element with up to MaxChildren children, whole and damaged,
\* one of another name, and ref elements whose param holds each of ParamTexts
XmlElement(n, content) == <<Open(n)>> \o content \o <<Close(n)>>
RefChild == {XmlElement(n, text) : n \in {"src", "id", "param"}, text \in {<<>>, <<"d">>}}
XmlFragments ==
    WithDamaged({XmlElement("ref", Concat(cs)) : cs \in SeqUpTo(RefChild, MaxChildren)})
        \cup {XmlElement("src", <<"d">>)}
        \cup {XmlElement("ref", XmlElement("param", text)) : text \in ParamTexts}

\* the values of nrfEntitlementRef explored
EntitlementRefs == PlainRefs \cup {<<"d", "#", "d", "#">> \o x : x \in XmlFragments}

\* a process that is going to synchronize one entry with an attribute to decode
InitEntry ==
    /\ InitStore
    /\ purgeAgeInDays = DefaultPurgeAge
    /\ runs = MaxDecodeRuns
    /\ faults = 0
    /\ entry = <<>>

\* syncResources, every call succeeding, on a search result of one entry that
\* holds the dn and nrfEntitlementRef
SyncResourcesEntry ==
    /\ pc = "syncResources"
    /\ \E dn \in ResourceDNs : \E ref \in EntitlementRefs :
          /\ entry' = [DN |-> dn, nrfEntitlementRef |-> ref]
          /\ columns' = entitlementColumns(ref)
          /\ syncResources(<<[DN |-> dn]>>, 0)
    /\ pc' = "syncAssociations"
    /\ SyncFrame /\ UNCHANGED <<faults, rival>>

NextEntitlement == StartRun \/ SyncRoles \/ SyncResourcesEntry

\* runs of the process in which the directory holds one resource
SpecEntitlement == InitEntry /\ [][NextEntitlement]_vars

(***************************************************************************)
(* The dynamic parameter values of an association.                         *)
(***************************************************************************)
\* a substitution that also turns the other two predefined entities into characters
ReplaceEntitiesAll(value) ==
    [i \in 1..Len(value) |->
        CASE value[i] = "&quot;" -> "\""
          [] value[i] = "&lt;" -> "<"
          [] value[i] = "&gt;" -> ">"
          [] value[i] = "&amp;" -> "&"
          [] value[i] = "&apos;" -> "'"
          [] OTHER -> value[i]]

\* the three strings.ReplaceAll calls on the text of the value element
ReplaceEntities(value) ==
    [i \in 1..Len(value) |->
        CASE value[i] = "&quot;" -> "\""
          [] value[i] = "&lt;" -> "<"
          [] value[i] = "&gt;" -> ">"
          [] OTHER -> value[i]]

\* a character of a string literal as json.Marshal writes it: '<', '>' and '&'
\* are written as \\u escapes
Escaped(c) ==
    CASE c = "<" -> "\\u003c"
      [] c = ">" -> "\\u003e"
      [] c = "&" -> "\\u0026"
      [] c = "&quot;" -> "\\u0026quot;"
      [] c = "&lt;" -> "\\u0026lt;"
      [] c = "&gt;" -> "\\u0026gt;"
      [] c = "&amp;" -> "\\u0026amp;"
      [] c = "&apos;" -> "\\u0026apos;"
      [] OTHER -> c

\* a JSON string literal from its opening quote at position i: json.Unmarshal reads
\* up to the next quote, json.Marshal writes the characters between them
jsonString(text, i) ==
    LET quotes == {j \in (i + 1)..Len(text) : text[j] = "\""}
        end == CHOOSE j \in quotes : \A k \in quotes : j <= k
    IN  IF i > Len(text) \/ text[i] # "\"" \/ quotes = {}
        THEN [ok |-> FALSE, next |-> i, out |-> <<>>]
        ELSE [ok |-> TRUE, next |-> end + 1,
              out |-> <<"\"">> \o [j \in 1..(end - i - 1) |-> Escaped(text[i + j])]
                              \o <<"\"">>]

\* a JSON value from position i, as json.Unmarshal reads it into an interface{} and
\* json.Marshal writes it back: a string, the number 1, an array, or an object of
\* at most one member (json.Marshal sorts the members of larger objects by name)
RECURSIVE jsonValue(_, _)
RECURSIVE jsonElements(_, _, _)
jsonValue(text, i) ==
    LET fail == [ok |-> FALSE, next |-> i, out |-> <<>>]
    IN  IF i > Len(text) THEN fail
        ELSE IF text[i] = "\"" THEN jsonString(text, i)
        ELSE IF text[i] = "1" THEN [ok |-> TRUE, next |-> i + 1, out |-> <<"1">>]
        ELSE IF text[i] = "["
             THEN IF i < Len(text) /\ text[i + 1] = "]"
                  THEN [ok |-> TRUE, next |-> i + 2, out |-> <<"[", "]">>]
                  ELSE jsonElements(text, i + 1, <<"[">>)
        ELSE IF text[i] = "{"
             THEN IF i < Len(text) /\ text[i + 1] = "}"
                  THEN [ok |-> TRUE, next |-> i + 2, out |-> <<"{", "}">>]
                  ELSE LET key == jsonString(text, i + 1)
                           val == jsonValue(text, key.next + 1)
                       IN  IF key.ok /\ key.next <= Len(text) /\ text[key.next] = ":"
                              /\ val.ok /\ val.next <= Len(text) /\ text[val.next] = "}"
                           THEN [ok |-> TRUE, next |-> val.next + 1,
                                 out |-> <<"{">> \o key.out \o <<":">> \o val.out \o <<"}">>]
                           ELSE fail
        ELSE fail

\* the elements of a JSON array from position i up to its closing bracket
jsonElements(text, i, out) ==
    LET val == jsonValue(text, i)
    IN  IF ~val.ok \/ val.next > Len(text) THEN [ok |-> FALSE, next |-> i, out |-> <<>>]
        ELSE IF text[val.next] = "]"
             THEN [ok |-> TRUE, next |-> val.next + 1, out |-> out \o val.out \o <<"]">>]
        ELSE IF text[val.next] = ","
             THEN jsonElements(text, val.next + 1, out \o val.out \o <<",">>)
        ELSE [ok |-> FALSE, next |-> i, out |-> <<>>]

\* json.Unmarshal(value, &jsonValue) followed by json.Marshal(jsonValue): the text
\* must be one JSON value and nothing else
jsonRoundTrip(value) ==
    LET val == jsonValue(value, 1)
    IN  IF val.ok /\ val.next = Len(value) + 1
        THEN [err |-> FALSE, out |-> val.out]
        ELSE [err |-> TRUE, out |-> <<>>]

\* a decoder that stores the substituted text without parsing it as JSON
dynamicJsonUnparsed(nrfDynamicParmVals) ==
    LET xmlDoc == xmlUnmarshal(nrfDynamicParmVals, "parameter")
    IN  IF nrfDynamicParmVals # <<>> /\ ~xmlDoc.err
        THEN ReplaceEntities(xmlField(xmlDoc.fields, "value"))
        ELSE <<>>

\* nrfdynamicparmvalsValueJSON of syncAssociations for the attribute value
\* nrfDynamicParmVals
dynamicJson(nrfDynamicParmVals) ==
    LET xmlDoc == xmlUnmarshal(nrfDynamicParmVals, "parameter")
        value == ReplaceEntities(xmlField(xmlDoc.fields, "value"))
        json == jsonRoundTrip(value)
    IN  IF nrfDynamicParmVals # <<>> /\ ~xmlDoc.err /\ ~json.err THEN json.out ELSE <<>>

\* the value texts explored, as they stand in the XML: string literals whose quotes
\* are plain, escaped once or escaped twice, around characters and entities; alone,
\* in an array and as the member name of an object; and an entity outside a literal
RawQuotes == {"\"", "&quot;", "&amp;quot;"}
RawContent == {"a", "&lt;", "&amp;gt;", "&amp;", "&amp;amp;", "&amp;apos;"}
RawString == {<<q>> \o c \o <<q>> : q \in RawQuotes, c \in SeqUpTo(RawContent, MaxContent)}
RawValues ==
    RawString
        \cup {<<"[">> \o str \o <<"]">> : str \in RawString}
        \cup {<<"[">> \o str \o <<",", "1", "]">> : str \in RawString}
        \cup {<<"{">> \o str \o <<":", "1", "}">> : str \in RawString}
        \cup {<<c>> : c \in RawContent}
        \cup {<<"1">>, <<"[", "]">>, <<"{", "}">>}

\* the values of nrfDynamicParmVals explored: none, text without a tag, and a
\* parameter element with a value element around each of RawValues, whole and damaged
DynamicParmVals ==
    WithDamaged({XmlElement("parameter", XmlElement("value", text)) : text \in RawValues})
        \cup {<<>>, <<"a">>}

\* syncAssociations, every call succeeding, on a search result of one entry that
\* holds the dn, nrfRole, nrfResource and nrfDynamicParmVals
SyncAssociationsEntry ==
    /\ pc = "syncAssociations"
    /\ \E e \in AssociationEntry : \E vals \in DynamicParmVals :
          /\ entry' = [DN |-> e.DN, nrfDynamicParmVals |-> vals]
          /\ columns' = [nrfDynamicParmVals |-> vals,
                         nrfdynamicparmvals_value_json |-> dynamicJson(vals)]
          /\ syncAssociations(<<e>>, 0)
    /\ pc' = "mark"
    /\ SyncFrame /\ UNCHANGED <<faults, rival>>

NextDynamic == StartRun \/ SyncRoles \/ SyncResources \/ SyncAssociationsEntry

\* runs of the process in which the directory holds one association
SpecDynamic == InitEntry /\ [][NextDynamic]_vars

(***************************************************************************)
(* markAndPurge called a second time with the arguments of the first call. *)
(***************************************************************************)
\* a store on which the lifecycle pass is going to be repeated
InitRepass ==
    /\ InitStore
    /\ entry = <<>>
    /\ purgeAgeInDays \in PurgeAges
    /\ runs = MaxRepassRuns
    /\ faults = 0

\* markAndPurge has returned and is about to be called again with the same
\* syncStartTimestamp and purgeAgeInDays
RepeatMarkAndPurge ==
    /\ pc = "done"
    /\ before' = Snapshot
    /\ pc' = "markAgain"
    /\ UNCHANGED <<now, syncStartTimestamp, purgeAgeInDays, dryRun, fatal, viz_roles,
                   viz_roles_parents, viz_resources, viz_roles_resources, searched, fetched,
                   parentStmts, committed, rowFailed, marked, purged, flaggedAt, runs,
                   faults, entry, columns, rival>>

\* what the second call of markAndPurge leaves alone
RepassFrame ==
    UNCHANGED <<now, syncStartTimestamp, purgeAgeInDays, dryRun, fatal, searched, fetched,
                parentStmts, committed, rowFailed, marked, purged, before, runs, entry,
                columns, rival>>

\* the first loop of the second call
MarkAgain == pc = "markAgain" /\ Written("mark", {}) /\ pc' = "purgeAgain" /\ RepassFrame

\* the second loop of the second call
PurgeAgain == pc = "purgeAgain" /\ Written("purge", {}) /\ pc' = "repassed" /\ RepassFrame

NextRepass == Next \/ RepeatMarkAndPurge \/ MarkAgain \/ PurgeAgain

\* runs of the process, after one of which the lifecycle pass is repeated
SpecRepass == InitRepass /\ [][NextRepass]_vars

(***************************************************************************)
(* Runs in which only the statements of markAndPurge may fail.             *)
(***************************************************************************)
\* a deployment in which a statement of the lifecycle pass may fail
InitLifecycleFaulty ==
    /\ InitStore
    /\ entry = <<>>
    /\ purgeAgeInDays = DefaultPurgeAge
    /\ runs = MaxLifecycleRuns
    /\ faults = MaxFaults

\* the statements of markAndPurge fail in the last run that is explored
MarkFailsInLastRun == runs = 0 /\ MarkFails
PurgeFailsInLastRun == runs = 0 /\ PurgeFails

NextLifecycleFaulty == Next \/ MarkFailsInLastRun \/ PurgeFailsInLastRun

\* the runs of the process while the UPDATE and DELETE of markAndPurge may fail
SpecLifecycleFaulty == InitLifecycleFaulty /\ [][NextLifecycleFaulty]_vars

(***************************************************************************)
(* Runs that go on to their end, for the fate of a record the directory    *)
(* no longer returns.                                                      *)
(***************************************************************************)
\* a deployment whose runs are followed until a withdrawn record is purged
InitEventual ==
    /\ InitStore
    /\ entry = <<>>
    /\ purgeAgeInDays = DefaultPurgeAge
    /\ runs = MaxEventualRuns
    /\ faults = 0

\* the runs of the process, every call succeeding and a started run going on to its end
SpecEventual == InitEventual /\ [][Next]_vars /\ WF_vars(RunStep)

(***************************************************************************)
(* Two processes of the program started against the same store at          *)
(* overlapping times.  Nothing in main() takes a lock, so the              *)
(* transactions and the statements of the two processes interleave; each   *)
(* transaction and each statement loop of markAndPurge is one step.        *)
(***************************************************************************)
\* timestampStr and purgeTimestamp as the process p computes them
rivalTimestampStr(p) == Format(rival[p].syncStartTimestamp)
rivalPurgeTimestamp(p) == Format(AddDate(rival[p].syncStartTimestamp, 0 - purgeAgeInDays))

\* a store against which the two processes are going to be started
InitRival ==
    /\ InitStore
    /\ entry = <<>>
    /\ purgeAgeInDays = DefaultPurgeAge
    /\ runs = 0
    /\ faults = 0

\* what a step of one of the two processes leaves alone
RivalFrame ==
    UNCHANGED <<now, pc, syncStartTimestamp, purgeAgeInDays, dryRun, fatal, searched, fetched,
                parentStmts, committed, rowFailed, marked, purged, before, runs, faults,
                entry, columns>>

\* the process p starts: syncStartTimestamp := time.Now()
RivalStarts(p) ==
    /\ rival[p].pc = "absent"
    /\ \E d \in Advance : now' = now + d
    /\ rival' = [rival EXCEPT ![p].pc = "syncRoles", ![p].syncStartTimestamp = now']
    /\ UNCHANGED <<pc, syncStartTimestamp, purgeAgeInDays, dryRun, fatal, viz_roles,
                   viz_roles_parents, viz_resources, viz_roles_resources, searched, fetched,
                   parentStmts, committed, rowFailed, marked, purged, before, flaggedAt,
                   runs, faults, entry, columns>>

\* the process p has run the synchronizer of t on the result es and goes on to `next`;
\* of the processes that have run it, p is now the last
rivalSynced(p, t, es, ok, next) ==
    rival' = [q \in Processes |->
                 IF q = p
                 THEN [rival[p] EXCEPT !.pc = next, !.fetched[t] = DNsOf(es),
                                       !.committed[t] = ok, !.last[t] = TRUE]
                 ELSE [rival[q] EXCEPT !.last[t] = FALSE]]

\* syncRoles of the process p
RivalSyncRoles(p) ==
    /\ rival[p].pc = "syncRoles"
    /\ \E es \in RoleResults :
          LET tx == syncRolesTx(viz_roles, viz_roles_parents, es, rivalTimestampStr(p), 0)
          IN  /\ viz_roles' = tx.roles
              /\ viz_roles_parents' = tx.parents
              /\ flaggedAt' = [flaggedAt EXCEPT !["viz_roles"] =
                                  Flagged(viz_roles, tx.roles, @, rivalTimestampStr(p))]
              /\ rivalSynced(p, "viz_roles", es, tx.ok, "syncResources")
    /\ UNCHANGED <<viz_resources, viz_roles_resources>>
    /\ RivalFrame

\* syncResources of the process p
RivalSyncResources(p) ==
    /\ rival[p].pc = "syncResources"
    /\ \E es \in ResourceResults :
          LET tx == syncUpsertTx(viz_resources, es, rivalTimestampStr(p), 0)
          IN  /\ viz_resources' = tx.tbl
              /\ flaggedAt' = [flaggedAt EXCEPT !["viz_resources"] =
                                  Flagged(viz_resources, tx.tbl, @, rivalTimestampStr(p))]
              /\ rivalSynced(p, "viz_resources", es, tx.ok, "syncAssociations")
    /\ UNCHANGED <<viz_roles, viz_roles_parents, viz_roles_resources>>
    /\ RivalFrame

\* syncAssociations of the process p
RivalSyncAssociations(p) ==
    /\ rival[p].pc = "syncAssociations"
    /\ \E es \in AssociationResults :
          LET tx == syncAssociationsTx(viz_roles, viz_resources, viz_roles_resources, es,
                                       rivalTimestampStr(p), 0)
          IN  /\ viz_roles_resources' = tx.tbl
              /\ flaggedAt' = [flaggedAt EXCEPT !["viz_roles_resources"] =
                                  Flagged(viz_roles_resources, tx.tbl, @,
                                          rivalTimestampStr(p))]
              /\ rivalSynced(p, "viz_roles_resources", es, tx.ok, "mark")
    /\ UNCHANGED <<viz_roles, viz_roles_parents, viz_resources>>
    /\ RivalFrame

\* one loop of markAndPurge in the process p, every statement succeeding
rivalWritten(p, loop, next) ==
    LET new(t) == IF loop = "mark" THEN MarkStale(Table(t), rivalTimestampStr(p))
                  ELSE PurgeOld(Table(t), rivalPurgeTimestamp(p))
    IN  /\ viz_roles' = new("viz_roles")
        /\ viz_resources' = new("viz_resources")
        /\ viz_roles_resources' = new("viz_roles_resources")
        /\ viz_roles_parents' = Cascade(viz_roles_parents, new("viz_roles"))
        /\ flaggedAt' = [t \in Tables |->
                            Flagged(Table(t), new(t), flaggedAt[t], rivalTimestampStr(p))]
        /\ rival' = [rival EXCEPT ![p].pc = next]
        /\ RivalFrame

\* markAndPurge of the process p, mark step
RivalMark(p) == rival[p].pc = "mark" /\ rivalWritten(p, "mark", "purge")

\* markAndPurge of the process p, purge step
RivalPurge(p) == rival[p].pc = "purge" /\ rivalWritten(p, "purge", "done")

NextRival ==
    \E p \in Processes :
        \/ RivalStarts(p)
        \/ RivalSyncRoles(p) \/ RivalSyncResources(p) \/ RivalSyncAssociations(p)
        \/ RivalMark(p) \/ RivalPurge(p)

\* two processes of the program running against the same store
SpecRival == InitRival /\ [][NextRival]_vars

(***************************************************************************)
(* Runs with a retention of zero or fewer days.                            *)
(***************************************************************************)
\* a deployment whose PURGE_AGE_IN_DAYS may be zero or negative
InitRetention ==
    /\ InitStore
    /\ entry = <<>>
    /\ purgeAgeInDays \in Retentions
    /\ runs = MaxRetentionRuns
    /\ faults = 0

\* the runs of the process for every retention that initConfig accepts
SpecRetention == InitRetention /\ [][Next]_vars

(***************************************************************************)
(* The consumer of the serialized localized-text maps: getLocalizedText of *)
(* the web client.  A serialized map is a string whose characters are the  *)
(* braces, the comma, a member name with its colon and a string literal.   *)
(***************************************************************************)
Languages == {"en", "de", "fr"}
Texts == {"", "x", "y"}

\* a member name with its colon, and a string literal, as one character each
LangKey(l) == "\"" \o l \o "\":"
TextLiteral(v) == "\"" \o v \o "\""

IsKey(c) == \E l \in Languages : c = LangKey(l)
KeyOf(c) == CHOOSE l \in Languages : c = LangKey(l)
IsText(c) == \E v \in Texts : c = TextLiteral(v)
TextOf(c) == CHOOSE v \in Texts : c = TextLiteral(v)

\* obj[k] = v on an object held as the list of its properties in insertion order
SetProperty(obj, k, v) ==
    IF \E n \in 1..Len(obj) : obj[n][1] = k
    THEN [n \in 1..Len(obj) |-> IF obj[n][1] = k THEN <<k, v>> ELSE obj[n]]
    ELSE Append(obj, <<k, v>>)

\* JSON.parse from the member that starts at text[i], obj holding the members read
RECURSIVE parseMembers(_, _, _)
parseMembers(text, i, obj) ==
    IF i + 2 > Len(text) \/ ~IsKey(text[i]) \/ ~IsText(text[i + 1])
    THEN [threw |-> TRUE, value |-> <<>>]
    ELSE LET read == SetProperty(obj, KeyOf(text[i]), TextOf(text[i + 1]))
         IN  IF text[i + 2] = "}" /\ i + 2 = Len(text) THEN [threw |-> FALSE, value |-> read]
             ELSE IF text[i + 2] = "," THEN parseMembers(text, i + 3, read)
             ELSE [threw |-> TRUE, value |-> <<>>]

\* JSON.parse(text) for the text of an object; a SyntaxError is threw = TRUE
JSONparse(text) ==
    IF Len(text) < 2 \/ text[1] # "{" THEN [threw |-> TRUE, value |-> <<>>]
    ELSE IF text = <<"{", "}">> THEN [threw |-> FALSE, value |-> <<>>]
    ELSE parseMembers(text, 2, <<>>)

\* the getLocalizedText of the API layer: the preferred languages or the fallback
getLocalizedTextPreferredOnly(localized, defaultValue, preferredLanguages) ==
    LET parsed == JSONparse(localized.text)
        obj == parsed.value
        truthy(l) == \E n \in 1..Len(obj) : obj[n][1] = l /\ obj[n][2] # ""
        hits == {n \in 1..Len(preferredLanguages) : truthy(preferredLanguages[n])}
        lang == preferredLanguages[CHOOSE n \in hits : \A m \in hits : n <= m]
    IN  IF ~localized.present \/ parsed.threw \/ hits = {} THEN defaultValue
        ELSE obj[CHOOSE n \in 1..Len(obj) : obj[n][1] = lang][2]

\* getLocalizedText(localized, defaultValue, preferredLanguages); localized is null
\* (present = FALSE) or a string
getLocalizedText(localized, defaultValue, preferredLanguages) ==
    LET parsed == JSONparse(localized.text)
        obj == parsed.value
        \* if (localizedObject[lang]): the property exists and is not the empty string
        truthy(l) == \E n \in 1..Len(obj) : obj[n][1] = l /\ obj[n][2] # ""
        hits == {n \in 1..Len(preferredLanguages) : truthy(preferredLanguages[n])}
        lang == preferredLanguages[CHOOSE n \in hits : \A m \in hits : n <= m]
    IN  IF ~localized.present THEN defaultValue
        ELSE IF parsed.threw THEN defaultValue
        ELSE IF hits # {} THEN obj[CHOOSE n \in 1..Len(obj) : obj[n][1] = lang][2]
        \* Object.values(localizedObject).find(val => val !== null)
        ELSE IF obj # <<>> THEN obj[1][2]
        ELSE defaultValue

\* serialized maps of up to MaxEntries entries, whole and damaged
LocalizedMember == {<<LangKey(l), TextLiteral(v)>> : l \in Languages, v \in Texts}
SerializedMaps ==
    WithDamaged({JsonObject(ms) : ms \in SeqUpTo(LocalizedMember, MaxEntries)})

\* what the client is given for a row: null, or the string of the column (maybe empty)
LocalizedValues ==
    {[present |-> FALSE, text |-> <<>>]}
        \cup [present : {TRUE}, text : SerializedMaps \cup {<<>>}]

DefaultValues == {"", "Keine Beschreibung"}
PreferredLists == {<<"en", "de">>, <<"de", "en">>, <<"fr">>}

\* a client that is about to render the localized name of one row
InitClient ==
    /\ InitStore
    /\ purgeAgeInDays = DefaultPurgeAge
    /\ runs = 0
    /\ faults = 0
    /\ entry \in [nrflocalizednames : LocalizedValues, defaultValue : DefaultValues,
                  preferredLanguages : PreferredLists]

\* getLocalizedText(role.nrflocalizednames, defaultValue, preferredLanguages) returns
GetLocalizedText ==
    /\ pc = "idle"
    /\ columns' = [text |-> getLocalizedText(entry.nrflocalizednames, entry.defaultValue,
                                             entry.preferredLanguages)]
    /\ pc' = "rendered"
    /\ UNCHANGED <<now, syncStartTimestamp, purgeAgeInDays, dryRun, fatal, viz_roles,
                   viz_roles_parents, viz_resources, viz_roles_resources, searched, fetched,
                   parentStmts, committed, rowFailed, marked, purged, before, flaggedAt,
                   runs, faults, entry, rival>>

NextClient == GetLocalizedText

\* the calls of getLocalizedText on every value up to MaxEntries entries
SpecClient == InitClient /\ [][NextClient]_vars

(***************************************************************************)
(* Runs in which any step may fail, for the order of the steps of a run.   *)
(***************************************************************************)
\* the calls of a synchronizer fail in the last run that is explored
SyncRolesFailsInLastRun == runs = 0 /\ SyncRolesFails
SyncResourcesFailsInLastRun == runs = 0 /\ SyncResourcesFails
SyncAssociationsFailsInLastRun == runs = 0 /\ SyncAssociationsFails

NextStepsFaulty ==
    \/ Next
    \/ SyncRolesFailsInLastRun \/ SyncResourcesFailsInLastRun
    \/ SyncAssociationsFailsInLastRun
    \/ MarkFailsInLastRun \/ PurgeFailsInLastRun

\* the runs of the process, the last of them with failing calls
SpecStepsFaulty == InitFaulty /\ [][NextStepsFaulty]_vars


(***************************************************************************)
(* Properties.                                                             *)
(***************************************************************************)
\* the run watermark as every statement of the run sees it
Watermark == timestampStr

Live(tbl) == {dn \in DOMAIN tbl : ~tbl[dn].is_deleted}

\* the table t as it was when the run started
Before(t) == before[t]

LifecycleSucceeded == \A t \in Tables : marked[t] /\ purged[t]

\* C1: at the end of every run, for every entity type whose synchronizer committed
\* and with a successful lifecycle pass, the rows with is_deleted = FALSE are exactly
\* the dns the directory returned for that entity type in this run.
C1_LiveRowsEqualFetched ==
    pc = "done" /\ LifecycleSucceeded =>
        \A t \in Tables : committed[t] => Live(Table(t)) = fetched[t]

\* C2 as stated: at the end of every run, a row's updated_at equals the run watermark
\* if and only if the record was returned by the directory search of this run.
C2_StampedIffObserved ==
    pc = "done" =>
        \A t \in Tables : \A dn \in DOMAIN Table(t) :
            Table(t)[dn].updated_at = Watermark <=> dn \in fetched[t]

\* C2 amended: at the end of every run, a row's updated_at equals the run watermark
\* if and only if the record was returned to a synchronizer that committed in this
\* run, or the row already carried that same value when the run started (an earlier
\* run started within the same second).
C2_StampedIffCommitted ==
    pc = "done" =>
        \A t \in Tables : \A dn \in DOMAIN Table(t) :
            Table(t)[dn].updated_at = Watermark <=>
                \/ committed[t] /\ dn \in fetched[t]
                \/ dn \in DOMAIN Before(t) /\ Before(t)[dn].updated_at = Watermark

\* C2 witness: a run ended in which a record was returned by the search, its
\* synchronizer did not commit, and the row kept an older updated_at.
C2_Witness ==
    /\ pc = "done"
    /\ \E t \in Tables : \E dn \in DOMAIN Table(t) :
          /\ dn \in fetched[t]
          /\ ~committed[t]
          /\ Table(t)[dn].updated_at < Watermark

\* C3: when the mark statement succeeds on a table, every row of the table whose
\* updated_at is strictly earlier than the run watermark has is_deleted = TRUE
\* afterwards, and a row whose updated_at equals the watermark is left as it was.
C3_MarkStep ==
    [][pc = "mark" /\ pc' = "purge" =>
        \A t \in Tables : marked'[t] =>
            /\ DOMAIN Table(t)' = DOMAIN Table(t)
            /\ \A dn \in DOMAIN Table(t) :
                  /\ Table(t)[dn].updated_at < Watermark => Table(t)'[dn].is_deleted
                  /\ Table(t)[dn].updated_at = Watermark => Table(t)'[dn] = Table(t)[dn]]_vars

\* C3 witness: the mark step has just succeeded on a table that holds a row stamped
\* before the watermark, live when the run started and now flagged, next to a row
\* stamped with the watermark that is still live.
C3_Witness ==
    /\ pc = "purge"
    /\ \E t \in Tables : \E stale, fresh \in DOMAIN Table(t) :
          /\ marked[t]
          /\ Table(t)[stale].updated_at < Watermark
          /\ ~Before(t)[stale].is_deleted
          /\ Table(t)[stale].is_deleted
          /\ Table(t)[fresh].updated_at = Watermark
          /\ ~Table(t)[fresh].is_deleted

\* the purge cutoff as the specification words it: watermark minus retention_days
RetentionCutoff == Watermark - purgeAgeInDays * SecondsPerDay

\* C4: the purge statement deletes from a table exactly the rows with
\* is_deleted = TRUE and updated_at earlier than watermark minus retention_days,
\* and leaves every other row as it was.
C4_PurgeStep ==
    [][pc = "purge" /\ pc' = "done" =>
        \A t \in Tables : purged'[t] =>
            /\ DOMAIN Table(t) \ DOMAIN Table(t)' =
                  {dn \in DOMAIN Table(t) :
                      Table(t)[dn].is_deleted /\ Table(t)[dn].updated_at < RetentionCutoff}
            /\ \A dn \in DOMAIN Table(t)' :
                  dn \in DOMAIN Table(t) /\ Table(t)'[dn] = Table(t)[dn]]_vars

\* C4 witness: a purge step has deleted a row of a table and kept a soft-deleted
\* row of the same table that is not older than the cutoff.
C4_Witness ==
    /\ pc = "done"
    /\ \E t \in Tables :
          /\ purged[t]
          /\ DOMAIN Before(t) \ DOMAIN Table(t) # {}
          /\ \E dn \in DOMAIN Table(t) :
                Table(t)[dn].is_deleted /\ Table(t)[dn].updated_at >= RetentionCutoff

\* the rows of viz_roles the scenario of C5 is about: live when the run started, last
\* stamped 10 days before the watermark, not stamped again by this run, with a
\* retention of 7 days and the mark and purge statements on viz_roles succeeding
C5_Case(dn) ==
    /\ pc = "done"
    /\ purgeAgeInDays = 7
    /\ marked["viz_roles"] /\ purged["viz_roles"]
    /\ dn \in DOMAIN before.viz_roles
    /\ ~before.viz_roles[dn].is_deleted
    /\ before.viz_roles[dn].updated_at = Watermark - 10 * SecondsPerDay
    /\ dn \notin fetched["viz_roles"]

Names(dn, parents) == {p \in parents : p[1] = dn \/ p[2] = dn}

C7_Case ==
    /\ pc = "syncResources"
    /\ searched["viz_roles"] = Found
    /\ fetched["viz_roles"] = {"R1"}
    /\ <<"R1", "R2">> \in PairSet(parentStmts)
    /\ "R2" \notin DOMAIN before.viz_roles

\* C7 as stated: afterwards viz_roles contains R1 and not R2, and the row (R1, R2)
\* is not in viz_roles_parents.
C7_RoleKeptPairRejected ==
    C7_Case =>
        /\ "R1" \in DOMAIN viz_roles
        /\ "R2" \notin DOMAIN viz_roles
        /\ <<"R1", "R2">> \notin viz_roles_parents

\* C7 amended: the foreign-key violation rolls the whole role transaction back:
\* viz_roles and viz_roles_parents are what they were before the synchronizer (R1 is
\* there only if it was there before), R2 is absent and (R1, R2) is not present.
C7_WholeSyncRolledBack ==
    C7_Case =>
        /\ ~committed["viz_roles"]
        /\ viz_roles = before.viz_roles
        /\ viz_roles_parents = before.viz_roles_parents
        /\ "R2" \notin DOMAIN viz_roles
        /\ <<"R1", "R2">> \notin viz_roles_parents

\* C7 witness: the scenario on a store that did not hold R1: its upsert was undone.
C7_Witness == C7_Case /\ "R1" \notin DOMAIN viz_roles

\* C8: once a synchronizer has committed, every row it fetched exists with
\* updated_at = the run watermark and is_deleted = FALSE (a soft-deleted row that is
\* returned again is live again).
C8_UpsertStampsAndRevives ==
    pc \in {"syncResources", "syncAssociations", "mark"} =>
        \A t \in Tables : committed[t] =>
            \A dn \in fetched[t] :
                /\ dn \in DOMAIN Table(t)
                /\ Table(t)[dn].updated_at = Watermark
                /\ ~Table(t)[dn].is_deleted

\* C8 witness: a committed synchronizer fetched a row that was soft-deleted when the
\* run started.
C8_Witness ==
    /\ pc \in {"syncResources", "syncAssociations", "mark"}
    /\ \E t \in Tables : \E dn \in fetched[t] :
          /\ committed[t]
          /\ dn \in DOMAIN Before(t)
          /\ Before(t)[dn].is_deleted

\* C9: after a role synchronization that commits, viz_roles_parents is exactly the
\* set of (child, parent) pairs derived from the roles fetched in this run.
C9_ParentsFullyReplaced ==
    pc = "syncResources" /\ committed["viz_roles"] =>
        viz_roles_parents = PairSet(parentStmts)

\* C9 witness: a committed role synchronization removed a pair of an earlier run
\* that this run did not derive again.
C9_Witness ==
    /\ pc = "syncResources"
    /\ committed["viz_roles"]
    /\ before.viz_roles_parents \ PairSet(parentStmts) # {}

\* C10: in every state, each RoleParent row's child_dn and parent_dn is the dn of a
\* row of viz_roles.
C10_ParentsReferenceRoles ==
    \A p \in viz_roles_parents : p[1] \in DOMAIN viz_roles /\ p[2] \in DOMAIN viz_roles

\* C10 witness: a run whose role synchronizer did not commit ended after the purge
\* step deleted a role that a RoleParent row named.
C10_Witness ==
    /\ pc = "done"
    /\ ~committed["viz_roles"]
    /\ \E p \in before.viz_roles_parents :
          p[1] \notin DOMAIN viz_roles \/ p[2] \notin DOMAIN viz_roles

\* C11: when a row-level statement of an entity synchronizer failed (an upsert, the
\* RoleParent delete or a RoleParent insert), the tables of that entity type are,
\* once the synchronizer has returned, what they were before it started.
C11_RowFailureLeavesNoTrace ==
    pc \in {"syncResources", "syncAssociations", "mark"} =>
        \A t \in Tables : rowFailed[t] =>
            /\ Table(t) = Before(t)
            /\ t = "viz_roles" => viz_roles_parents = before.viz_roles_parents

\* C11 witness: the role synchronizer failed at a row-level statement in a run
\* that fetched a role stamped by an earlier run and derived no pair, on a store
\* that held RoleParent rows: the stamp and the pairs are those of the earlier run.
C11_Witness ==
    /\ pc = "syncResources"
    /\ rowFailed["viz_roles"]
    /\ \E dn \in fetched["viz_roles"] :
          dn \in DOMAIN viz_roles /\ viz_roles[dn].updated_at < Watermark
    /\ PairSet(parentStmts) = {}
    /\ viz_roles_parents # {}

\* the synchronizer of t has failed in this run: its search or its transaction
SyncFailed(t) == searched[t] = LdapError \/ (searched[t] = Found /\ ~committed[t])

\* the run is over: every synchronizer was executed, and so were the mark and the
\* purge loop (the only way to "done"), each over the three tables
RunCompleted == pc = "done" /\ \A u \in Tables : searched[u] # NotRun

\* C12: when the search or the transaction of an entity synchronizer fails, the run
\* goes on: every later synchronizer is executed and then the mark and the purge loop.
C12_RunContinuesAfterFailure ==
    (\E t \in Tables : SyncFailed(t)) ~> RunCompleted

\* C12 witness: a run is over in which the role search failed, the two later
\* synchronizers committed and the mark and the purge statements ran on every table.
C12_Witness ==
    /\ RunCompleted
    /\ searched["viz_roles"] = LdapError
    /\ committed["viz_resources"] /\ committed["viz_roles_resources"]
    /\ fetched["viz_resources"] # {}
    /\ \A t \in Tables : marked[t] /\ purged[t]

\* C13: the step in which the search of an entity type returns an error changes no
\* row of any table (viz_roles_parents keeps its rows) and commits nothing, and the
\* search is not made again in the same run.
C13_SearchFailureWritesNothing ==
    [][\A t \in Tables :
          /\ searched[t] = NotRun /\ searched'[t] = LdapError =>
                /\ Snapshot' = Snapshot
                /\ ~committed'[t] /\ ~rowFailed'[t]
                /\ fetched'[t] = {}
          /\ searched[t] = LdapError /\ syncStartTimestamp' = syncStartTimestamp /\ now' = now =>
                searched'[t] = LdapError]_vars

\* C13 witness: the role search has failed on a store that holds roles and
\* RoleParent rows, and they are still there.
C13_Witness ==
    /\ pc = "syncResources"
    /\ searched["viz_roles"] = LdapError
    /\ viz_roles # EmptyTable
    /\ viz_roles_parents # {}

\* C14: a process that ends in a fatal error does so at its start: no synchronizer
\* and no lifecycle step of it has run and no row of the four tables has changed;
\* a process that has started its first synchronizer does not end in a fatal error.
C14_FatalOnlyAtStartup ==
    [][pc' = "fatal" =>
          /\ pc \in {"idle", "done", "fatal"}
          /\ Snapshot' = Snapshot
          /\ searched' = NoneRun /\ fetched' = NoneFetched
          /\ committed' = AllFalse /\ marked' = AllFalse /\ purged' = AllFalse]_vars

\* C14 witness: a process has ended in the fatal error of a CREATE TABLE statement
\* on a store that holds rows of an earlier run.
C14_Witness ==
    /\ pc = "fatal"
    /\ fatal = "CREATE TABLE viz_roles_parents"
    /\ viz_roles # EmptyTable
    /\ viz_roles_parents # {}

\* C15: a process started with the dry-run flag only makes the three directory
\* searches: it opens no database connection (none of its fatal errors is one of the
\* database), runs no synchronizer, mark or purge step, and the four tables are what
\* they were when it started.
C15_DryRunWritesNothing ==
    dryRun =>
        /\ pc \in {"countRoles", "countResources", "countAssociations", "done", "fatal"}
        /\ Snapshot = before
        /\ fetched = NoneFetched
        /\ committed = AllFalse /\ marked = AllFalse /\ purged = AllFalse
        /\ pc = "fatal" => fatal \in {LdapFatals[i] : i \in 1..Len(LdapFatals)}
        /\ pc = "done" => \A t \in Tables : searched[t] # NotRun

\* C15 witness: a dry run has ended, its three searches returned entries, on a
\* store that holds rows of an earlier run.
C15_Witness ==
    /\ dryRun
    /\ pc = "done"
    /\ \A t \in Tables : searched[t] = Found
    /\ \E t \in Tables : Live(Table(t)) # {}

\* C16: when the purge step deletes a Role row, every RoleParent row that names the
\* role as child_dn or as parent_dn is deleted with it, whatever the state of the
\* role on the other side; the other RoleParent rows stay.
C16_PurgeCascades ==
    [][pc = "purge" /\ pc' = "done" =>
          \A p \in viz_roles_parents :
              p \in viz_roles_parents' <=>
                  p[1] \in DOMAIN viz_roles' /\ p[2] \in DOMAIN viz_roles']_vars

\* C16 witness: the purge step has deleted a role and with it a RoleParent row that
\* this run inserted, whose other role is live and still in the Role table.
C16_Witness ==
    /\ pc = "done"
    /\ committed["viz_roles"]
    /\ \E p \in PairSet(parentStmts) :
          /\ p \notin viz_roles_parents
          /\ p[1] \in Live(viz_roles)
          /\ p[2] \notin DOMAIN viz_roles

\* tables a and b hold the same rows with the same created_at and is_deleted
SameButUpdatedAt(a, b) ==
    /\ DOMAIN a = DOMAIN b
    /\ \A dn \in DOMAIN a :
          a[dn].created_at = b[dn].created_at /\ a[dn].is_deleted = b[dn].is_deleted

\* C17: a second role synchronization on unchanged directory data leaves viz_roles
\* with the rows, created_at and is_deleted the first one left, and
\* viz_roles_parents with the same pairs; only updated_at of the fetched roles moves
\* to the second timestamp.
C17_RoleSyncIdempotent ==
    pc = "resynced" =>
        /\ SameButUpdatedAt(viz_roles, before.viz_roles)
        /\ viz_roles_parents = before.viz_roles_parents
        /\ \A dn \in DOMAIN viz_roles :
              viz_roles[dn].updated_at =
                  IF committed["viz_roles"] /\ dn \in fetched["viz_roles"]
                  THEN Watermark ELSE before.viz_roles[dn].updated_at

\* C17 witness: the second synchronization has committed, in a later second than the
\* first, on a table that holds fetched roles and parent pairs.
C17_Witness ==
    /\ pc = "resynced"
    /\ committed["viz_roles"]
    /\ viz_roles_parents # {}
    /\ \E dn \in fetched["viz_roles"] :
          before.viz_roles[dn].updated_at < Watermark /\ viz_roles[dn].created_at < Watermark

\* the six orders in which main() could call the three synchronizers
Orders == {o \in [1..3 -> Tables] : \A i, j \in 1..3 : i # j => o[i] # o[j]}

\* one synchronizer, every call succeeding, applied to the four tables db
ApplySync(t, db, in, ts) ==
    CASE t = "viz_roles" ->
            LET tx == syncRolesTx(db.viz_roles, db.viz_roles_parents, in.viz_roles, ts, 0)
            IN  [db EXCEPT !.viz_roles = tx.roles, !.viz_roles_parents = tx.parents]
      [] t = "viz_resources" ->
            [db EXCEPT !.viz_resources = syncUpsertTx(@, in.viz_resources, ts, 0).tbl]
      [] t = "viz_roles_resources" ->
            [db EXCEPT !.viz_roles_resources =
                syncAssociationsTx(db.viz_roles, db.viz_resources, @,
                                   in.viz_roles_resources, ts, 0).tbl]

\* the three synchronizers called in the order o
InOrder(o, db, in, ts) ==
    ApplySync(o[3], ApplySync(o[2], ApplySync(o[1], db, in, ts), in, ts), in, ts)

\* markAndPurge, every statement succeeding, applied to the four tables db
Lifecycle(db, ts, cutoff) ==
    LET kept(t) == PurgeOld(MarkStale(db[t], ts), cutoff)
    IN  [viz_roles |-> kept("viz_roles"),
         viz_roles_parents |-> Cascade(db.viz_roles_parents, kept("viz_roles")),
         viz_resources |-> kept("viz_resources"),
         viz_roles_resources |-> kept("viz_roles_resources")]

\* the search results the synchronizers of this run may have been given
RunInputs ==
    [viz_roles : {es \in RoleResults :
                     DNsOf(es) = fetched["viz_roles"] /\ ParentPairs(es) = parentStmts},
     viz_resources : {es \in ResourceResults : DNsOf(es) = fetched["viz_resources"]},
     viz_roles_resources :
         {es \in AssociationResults : DNsOf(es) = fetched["viz_roles_resources"]}]

\* C18: at the end of a run that is not a dry run the four tables are what each of
\* the six orders of the three synchronizers, followed by the lifecycle pass, makes
\* of the store the run started with and the entries the directory returned,
\* whatever roles and resources the association entries name.
C18_OrderIndependent ==
    pc = "done" /\ ~dryRun =>
        \A in \in RunInputs : \A o \in Orders :
            Lifecycle(InOrder(o, before, in, Watermark), Watermark, purgeTimestamp) = Snapshot

\* C18 witness: a run on a store with rows has ended in which the three
\* synchronizers committed and an association was upserted while no role and no
\* resource it can name is in the Role and Resource tables.
C18_Witness ==
    /\ pc = "done" /\ ~dryRun
    /\ \A t \in Tables : committed[t] /\ Before(t) # EmptyTable
    /\ Live(viz_roles_resources) # {}
    /\ viz_roles = EmptyTable /\ viz_resources = EmptyTable

\* C19: the watermark is taken once, before the first synchronizer, and does not
\* change until the run ends; every updated_at a step of the run writes is that
\* value, every row the mark step flags was stamped before it, and every row the
\* purge step deletes was stamped before it minus the retention.
C19_SingleWatermark ==
    [][/\ pc \notin {"idle", "done", "fatal"} => syncStartTimestamp' = syncStartTimestamp
       /\ \A t \in Tables :
             /\ \A dn \in DOMAIN Table(t)' :
                   /\ dn \notin DOMAIN Table(t) =>
                         Table(t)'[dn].updated_at = Format(syncStartTimestamp)
                   /\ dn \in DOMAIN Table(t) =>
                         /\ Table(t)'[dn].updated_at # Table(t)[dn].updated_at =>
                               Table(t)'[dn].updated_at = Format(syncStartTimestamp)
                         /\ Table(t)'[dn].is_deleted /\ ~Table(t)[dn].is_deleted =>
                               Table(t)[dn].updated_at < Format(syncStartTimestamp)
             /\ \A dn \in DOMAIN Table(t) \ DOMAIN Table(t)' :
                   Table(t)[dn].updated_at
                       < Format(syncStartTimestamp) - purgeAgeInDays * SecondsPerDay]_vars

\* C19 witness: a run has ended in which each of the three synchronizers stamped a
\* row and a row that was live at the start was flagged and then purged.
C19_Witness ==
    /\ pc = "done"
    /\ \A t \in Tables : committed[t] /\ fetched[t] # {}
    /\ \A t \in Tables : \E dn \in DOMAIN Table(t) : Table(t)[dn].updated_at = Watermark
    /\ \E t \in Tables : \E dn \in DOMAIN Before(t) :
          /\ ~Before(t)[dn].is_deleted
          /\ dn \notin DOMAIN Table(t)

\* C20: a row's created_at is the watermark of the run that inserted it and no step
\* changes it while the row exists (no upsert, revival, mark or purge step); a dn
\* gets a new created_at only by being inserted again after its row was purged.
C20_CreatedAtSetOnce ==
    [][\A t \in Tables : \A dn \in DOMAIN Table(t)' :
          Table(t)'[dn].created_at =
              IF dn \in DOMAIN Table(t) THEN Table(t)[dn].created_at
              ELSE Format(syncStartTimestamp)]_vars

\* C20 witness: a synchronizer has revived a soft-deleted row of an earlier run,
\* which now carries the run's updated_at and its old created_at.
C20_Witness ==
    /\ pc \in {"syncResources", "syncAssociations", "mark"}
    /\ \E t \in Tables : \E dn \in fetched[t] :
          /\ committed[t]
          /\ dn \in DOMAIN Before(t)
          /\ Before(t)[dn].is_deleted
          /\ Table(t)[dn].updated_at = Watermark
          /\ Table(t)[dn].created_at < Watermark

\* the segments of the localized-text value s: its stretches between two
\* neighbouring '|' (or an end of s), as pairs of the positions that enclose them
Segments(s) ==
    LET ends == {0, Len(s) + 1} \cup {i \in 1..Len(s) : s[i] = "|"}
    IN  {seg \in ends \X ends :
            seg[1] < seg[2] /\ \A i \in ends : ~(seg[1] < i /\ i < seg[2])}

\* the position of the first '~' of a segment, 0 if it has none
FirstTilde(s, seg) ==
    LET at == {i \in (seg[1] + 1)..(seg[2] - 1) : s[i] = "~"}
    IN  IF at = {} THEN 0 ELSE CHOOSE i \in at : \A j \in at : i <= j

Language(s, seg) == SubSeq(s, seg[1] + 1, FirstTilde(s, seg) - 1)
Text(s, seg) == SubSeq(s, FirstTilde(s, seg) + 1, seg[2] - 1)
Tagged(s) == {seg \in Segments(s) : FirstTilde(s, seg) # 0}

\* C21: parseLocalizedAttributes returns for every input the map whose languages
\* are the texts before the first '~' of the '|'-separated segments that have a
\* '~', each language mapped to what follows that '~' in the last segment with
\* this language; segments without '~' add nothing and the empty input gives the
\* empty map.
C21_LocalizedDecoded ==
    pc = "parsed" =>
        LET s == entry.nrfLocalizedNames
            m == columns.nrfLocalizedNames
        IN  /\ DOMAIN m = {Language(s, seg) : seg \in Tagged(s)}
            /\ \A seg \in Tagged(s) :
                  (\A later \in Tagged(s) :
                      Language(s, later) = Language(s, seg) => later[1] <= seg[1])
                      => m[Language(s, seg)] = Text(s, seg)
            /\ (s = <<>> => m = <<>>)

\* C21 witness: a value has been decoded that has a segment without '~', a text
\* with a '~' in it, and a language that occurs twice with different texts.
C21_Witness ==
    /\ pc = "parsed"
    /\ LET s == entry.nrfLocalizedNames
       IN  /\ Segments(s) # Tagged(s)
           /\ \E seg \in Tagged(s) : Contains(Text(s, seg), "~")
           /\ \E a, b \in Tagged(s) :
                 /\ a[1] < b[1]
                 /\ Language(s, a) = Language(s, b)
                 /\ Text(s, a) # Text(s, b)
                 /\ columns.nrfLocalizedNames[Language(s, b)] = Text(s, b)

\* the positions of the '#' characters of a string
Hashes(s) == {i \in 1..Len(s) : s[i] = "#"}

\* the XML-derived columns of the resource row are all empty
XmlDerivedEmpty ==
    /\ columns.entitlement_xml_src = <<>>
    /\ columns.entitlement_xml_id = <<>>
    /\ columns.entitlement_xml_param_id = <<>>
    /\ columns.entitlement_xml_param_id2 = <<>>
    /\ columns.entitlement_xml_param_id3 = <<>>

\* C22: a resource whose nrfEntitlementRef has fewer than two '#' is decoded without
\* error: the driver is the text before the first '#' (all of it when there is
\* none), the status is the text after that '#' or empty, and the raw XML, src, id
\* and the three parameter ids are empty.
C22_MissingPartsLeftEmpty ==
    (pc = "syncAssociations" /\ Cardinality(Hashes(entry.nrfEntitlementRef)) < 2) =>
        LET s == entry.nrfEntitlementRef
            cut == IF Hashes(s) = {} THEN Len(s) + 1 ELSE CHOOSE i \in Hashes(s) : TRUE
        IN  /\ committed["viz_resources"]
            /\ columns.entitlement_driver = SubSeq(s, 1, cut - 1)
            /\ columns.entitlement_status = SubSeq(s, cut + 1, Len(s))
            /\ columns.entitlement_xml = <<>>
            /\ XmlDerivedEmpty

\* C22 witness: a reference with one '#', a driver and a status has been decoded.
C22_Witness ==
    /\ pc = "syncAssociations"
    /\ Cardinality(Hashes(entry.nrfEntitlementRef)) = 1
    /\ columns.entitlement_driver # <<>>
    /\ columns.entitlement_status # <<>>
    /\ columns.entitlement_status # columns.entitlement_driver

\* the xmlFragment part of an entitlement reference: what follows its second '#'
XmlFragment(s) ==
    LET second == CHOOSE i \in Hashes(s) : Cardinality({j \in Hashes(s) : j < i}) = 1
    IN  IF Cardinality(Hashes(s)) < 2 THEN <<>> ELSE SubSeq(s, second + 1, Len(s))

\* the resource entry of this run has been upserted and its transaction committed
ResourceUpserted ==
    /\ committed["viz_resources"]
    /\ entry.DN \in DOMAIN viz_resources
    /\ viz_resources[entry.DN].updated_at = Watermark
    /\ ~viz_resources[entry.DN].is_deleted

\* C23: when the xmlFragment of an entitlement reference is present and xml.Unmarshal
\* rejects it, src, id and the three parameter ids are stored empty, the raw XML
\* column holds the fragment unchanged, and the resource row is upserted in a
\* transaction that commits.
C23_XmlFailsSoft ==
    (/\ pc = "syncAssociations"
     /\ XmlFragment(entry.nrfEntitlementRef) # <<>>
     /\ xmlUnmarshal(XmlFragment(entry.nrfEntitlementRef), "ref").err)
        => /\ XmlDerivedEmpty
           /\ columns.entitlement_xml = XmlFragment(entry.nrfEntitlementRef)
           /\ ResourceUpserted

\* C23 witness: a resource has been upserted whose XML fragment breaks off after
\* xml.Unmarshal had already read a src or id element with text.
C23_Witness ==
    /\ pc = "syncAssociations"
    /\ ResourceUpserted
    /\ LET ref == xmlUnmarshal(XmlFragment(entry.nrfEntitlementRef), "ref")
       IN  /\ ref.err
           /\ \E n \in {"src", "id"} : xmlField(ref.fields, n) # <<>>

\* a text is a JSON object: braces around members separated by commas, each a
\* member name followed by a string or a number
IsJsonObject(text) ==
    /\ Len(text) >= 2 /\ text[1] = "{" /\ text[Len(text)] = "}"
    /\ Len(text) = 2 \/ Len(text) % 3 = 1
    /\ \A i \in 2..(Len(text) - 1) :
          CASE i % 3 = 2 -> text[i] \in JsonKeys
            [] i % 3 = 0 -> text[i] \in {JsonString, JsonNumber}
            [] OTHER -> text[i] = ","

\* a text is valid JSON: an object, a string or a number
IsJson(text) == IsJsonObject(text) \/ text \in {<<JsonString>>, <<JsonNumber>>}

\* the value of the member of a JSON object with the name key: of the last such
\* member, the text of a string or the digits of a number; empty without one
MemberValue(text, key) ==
    LET at == {i \in 1..Len(text) : text[i] = key}
        last == CHOOSE i \in at : \A j \in at : j <= i
    IN  IF at = {} THEN <<>>
        ELSE IF text[last + 1] = JsonString THEN Unquote(text[last + 1])
        ELSE <<text[last + 1]>>

\* the text of the param element of the XML fragment of this run's resource
ParamText == xmlField(xmlUnmarshal(XmlFragment(entry.nrfEntitlementRef), "ref").fields, "param")

\* the XML fragment of this run's resource parses and its param element has text
ParamPresent ==
    /\ pc = "syncAssociations"
    /\ XmlFragment(entry.nrfEntitlementRef) # <<>>
    /\ ~xmlUnmarshal(XmlFragment(entry.nrfEntitlementRef), "ref").err
    /\ ParamText # <<>>

\* C24: when the entitlement XML parses and the text of its param element is not
\* valid JSON, that text is stored verbatim as the first parameter id and the
\* second and third are empty; when the text is a JSON object, the three
\* parameter ids are the values of its members ID, ID2 and ID3.
C24_ParamFallback ==
    ParamPresent =>
        /\ ~IsJson(ParamText) =>
              /\ columns.entitlement_xml_param_id = ParamText
              /\ columns.entitlement_xml_param_id2 = <<>>
              /\ columns.entitlement_xml_param_id3 = <<>>
        /\ IsJsonObject(ParamText) =>
              /\ columns.entitlement_xml_param_id = MemberValue(ParamText, "\"ID\":")
              /\ columns.entitlement_xml_param_id2 = MemberValue(ParamText, "\"ID2\":")
              /\ columns.entitlement_xml_param_id3 = MemberValue(ParamText, "\"ID3\":")

\* the text of the value element of this run's association, as xml.Unmarshal returns
\* it, and whether xml.Unmarshal rejects the attribute
ValueText == xmlField(xmlUnmarshal(entry.nrfDynamicParmVals, "parameter").fields, "value")
XmlRejected == xmlUnmarshal(entry.nrfDynamicParmVals, "parameter").err

\* a text with every &quot;, &lt; and &gt; turned into its character and nothing else
\* changed
ThreeUnescaped(v) ==
    [i \in 1..Len(v) |->
        IF v[i] = "&quot;" THEN "\"" ELSE IF v[i] = "&lt;" THEN "<"
        ELSE IF v[i] = "&gt;" THEN ">" ELSE v[i]]

\* the valid JSON texts among those explored: a string literal, alone, as the one or
\* the first element of an array or as the member name of an object, the number 1,
\* the empty array and the empty object
InLiteral == {"a", "<", ">", "&", "'", "&quot;", "&lt;", "&gt;", "&amp;", "&apos;"}
Literal == {<<"\"">> \o c \o <<"\"">> : c \in SeqUpTo(InLiteral, MaxContent)}
ValidJson ==
    Literal
        \cup {<<"[">> \o str \o <<"]">> : str \in Literal}
        \cup {<<"[">> \o str \o <<",", "1", "]">> : str \in Literal}
        \cup {<<"{">> \o str \o <<":", "1", "}">> : str \in Literal}
        \cup {<<"1">>, <<"[", "]">>, <<"{", "}">>}

\* the association entry of this run has been upserted and its transaction committed
AssociationUpserted ==
    /\ committed["viz_roles_resources"]
    /\ entry.DN \in DOMAIN viz_roles_resources
    /\ viz_roles_resources[entry.DN].updated_at = Watermark
    /\ ~viz_roles_resources[entry.DN].is_deleted

\* C25: when nrfDynamicParmVals is not parseable XML, or the text of its value
\* element is not valid JSON after the three entities are substituted, the derived
\* JSON column is stored empty, the raw attribute is stored unchanged, and the
\* association row is upserted with updated_at = watermark and is_deleted = false.
C25_DynamicFailsSoft ==
    (/\ pc = "mark"
     /\ entry.nrfDynamicParmVals # <<>>
     /\ XmlRejected \/ ThreeUnescaped(ValueText) \notin ValidJson)
        => /\ columns.nrfdynamicparmvals_value_json = <<>>
           /\ columns.nrfDynamicParmVals = entry.nrfDynamicParmVals
           /\ AssociationUpserted

\* C25 witness: an association has been upserted whose attribute is XML with a value
\* text of several characters that is not JSON.
C25_Witness ==
    /\ pc = "mark"
    /\ AssociationUpserted
    /\ ~XmlRejected
    /\ Len(ValueText) > 1
    /\ ThreeUnescaped(ValueText) \notin ValidJson

\* the entities the decoder does not substitute
OtherEntities == {"&amp;", "&apos;"}

\* C26 as claimed: a value text that uses an entity other than quot, lt and gt is
\* not unescaped and its decode fails soft: the derived JSON column is empty.
C26_OtherEntitiesFailSoft ==
    (/\ pc = "mark"
     /\ ~XmlRejected
     /\ \E i \in 1..Len(ValueText) : ValueText[i] \in OtherEntities)
        => columns.nrfdynamicparmvals_value_json = <<>>

\* C26: the text given to the JSON parser is the value text with &quot;, &lt; and
\* &gt; turned into their characters and every other character, the other entities
\* included, unchanged: the derived JSON column is empty when that text is not valid
\* JSON, and otherwise holds it as json.Marshal writes it, an entity other than the
\* three still standing in its string literal.
C26_OnlyThreeUnescaped ==
    (pc = "mark" /\ entry.nrfDynamicParmVals # <<>> /\ ~XmlRejected) =>
        LET text == ThreeUnescaped(ValueText)
        IN  columns.nrfdynamicparmvals_value_json =
                IF text \in ValidJson THEN [i \in 1..Len(text) |-> Escaped(text[i])]
                ELSE <<>>

\* C26 witness: an association has been upserted whose value text has the entity
\* amp or apos inside a string literal with escaped quotes, and the derived JSON
\* column holds that literal.
C26_Witness ==
    /\ pc = "mark"
    /\ AssociationUpserted
    /\ ~XmlRejected
    /\ \E i \in 1..Len(ValueText) : ValueText[i] \in OtherEntities
    /\ \E i \in 1..Len(ValueText) : ValueText[i] = "&quot;"
    /\ columns.nrfdynamicparmvals_value_json # <<>>

\* the roles that are rows of viz_roles inside the transaction of syncRoles when its
\* phase 2 starts: those of the store and those phase 1 upserted
RolesAtPhase2 == DOMAIN before.viz_roles \cup fetched["viz_roles"]

\* the role synchronizer of this run has returned from a successful search
RolesSynchronized == pc = "syncResources" /\ searched["viz_roles"] = Found

\* C27 as claimed: when phase 2 starts every dn a fetched role names as parent is a
\* row of viz_roles, so no insert of phase 2 violates its foreign key and the
\* transaction commits.
C27_ParentsAlwaysPresent ==
    RolesSynchronized =>
        /\ \A pair \in PairSet(parentStmts) : pair[2] \in RolesAtPhase2
        /\ committed["viz_roles"]

\* C27: when phase 2 starts every fetched role is a row of viz_roles, whatever the
\* order of the entries, so an insert of phase 2 violates its foreign key only if it
\* names a parent that is neither fetched in this run nor a row of the store; without
\* such a parent the transaction commits with every pair inserted, and with one it
\* is rolled back.
C27_FetchedRolesPresent ==
    RolesSynchronized =>
        IF \A pair \in PairSet(parentStmts) : pair[2] \in RolesAtPhase2
        THEN /\ committed["viz_roles"]
             /\ fetched["viz_roles"] \subseteq DOMAIN viz_roles
             /\ viz_roles_parents = PairSet(parentStmts)
        ELSE /\ ~committed["viz_roles"]
             /\ viz_roles = before.viz_roles
             /\ viz_roles_parents = before.viz_roles_parents

\* C27 witness: a pair was inserted whose parent was not in the store when the run
\* started and was upserted by phase 1 of the same transaction.
C27_Witness ==
    /\ RolesSynchronized
    /\ committed["viz_roles"]
    /\ \E pair \in viz_roles_parents :
          /\ pair[2] \notin DOMAIN before.viz_roles
          /\ pair[2] \in fetched["viz_roles"]
          /\ pair[1] \notin DOMAIN before.viz_roles

\* the order of the steps of a run, as pairs of a step and the one that follows it
StepOrder ==
    {<<"idle", "syncRoles">>, <<"done", "syncRoles">>, <<"syncRoles", "syncResources">>,
     <<"syncResources", "syncAssociations">>, <<"syncAssociations", "mark">>,
     <<"mark", "purge">>, <<"purge", "done">>}

\* a step flags a row of table t, or deletes one
Flags(t) ==
    \E dn \in DOMAIN Table(t) \cap DOMAIN Table(t)' :
        ~Table(t)[dn].is_deleted /\ Table(t)'[dn].is_deleted
Deletes(t) == \E dn \in DOMAIN Table(t) : dn \notin DOMAIN Table(t)'

\* C28: the steps of a run follow one another in the order Role, Resource,
\* Association synchronizer, mark, purge, each once, whether or not a step fails: a
\* row is flagged only by the mark step, which runs when all three synchronizers
\* have returned, and a row is deleted only by the purge step, which runs after the
\* mark step has run on all three tables.
C28_StepsInOrder ==
    [][/\ pc' # pc => <<pc, pc'>> \in StepOrder
       /\ \A t \in Tables :
             /\ Flags(t) => /\ pc = "mark" /\ pc' = "purge"
                            /\ \A u \in Tables : searched[u] # NotRun
             /\ Deletes(t) => pc = "purge" /\ pc' = "done"
             /\ marked'[t] # marked[t] => pc = "mark" \/ pc' = "syncRoles"
             /\ purged'[t] # purged[t] => pc = "purge" \/ pc' = "syncRoles"]_vars

\* C28 witness: a run has ended in which a synchronizer failed, the mark step flagged
\* a row and the purge step deleted a row.
C28_Witness ==
    /\ pc = "done"
    /\ \E t \in Tables : ~committed[t]
    /\ \E t \in Tables : \E dn \in DOMAIN Before(t) \cap DOMAIN Table(t) :
          ~Before(t)[dn].is_deleted /\ Table(t)[dn].is_deleted
    /\ \E t \in Tables : \E dn \in DOMAIN Before(t) : dn \notin DOMAIN Table(t)

\* C29: a second lifecycle pass with the watermark and the retention of the first,
\* no synchronizer having run in between, leaves the four tables exactly as the
\* first pass left them; a row that is already soft-deleted is matched by the mark
\* statement again and stays as it is.
C29_LifecycleIdempotent ==
    pc = "repassed" => Snapshot = before

\* C29 witness: the pass has been repeated on a store in which a row soft-deleted by
\* the first pass was still there to be marked again, next to a live row.
C29_Witness ==
    /\ pc = "repassed"
    /\ \E t \in Tables :
          /\ \E dn \in DOMAIN Table(t) :
                Table(t)[dn].is_deleted /\ Table(t)[dn].updated_at < Watermark
          /\ Live(Table(t)) # {}
    /\ viz_roles_parents # {}

\* the mark loop / the purge loop of markAndPurge takes a step
MarkStep == pc = "mark" /\ pc' = "purge"
PurgeStep == pc = "purge" /\ pc' = "done"

\* C30: in each loop of the lifecycle pass the statement takes effect on every table
\* on which it does not fail, whatever happened on the other tables, and a table on
\* which it fails is left as it was; the purge statement runs on a table whether or
\* not the mark statement on that table succeeded.
C30_TablesIndependent ==
    [][\A t \in Tables :
          /\ MarkStep =>
                Table(t)' = IF marked'[t] THEN MarkStale(Table(t), Watermark) ELSE Table(t)
          /\ PurgeStep =>
                Table(t)' = IF purged'[t] THEN PurgeOld(Table(t), purgeTimestamp)
                                          ELSE Table(t)
          /\ PurgeStep /\ ~marked[t] => purged'[t] \/ faults' < faults]_vars

\* C30 witness: a run has ended in which the mark failed on one table and flagged
\* a live row of another, and the purge still deleted rows of the table whose mark
\* failed.
C30_Witness ==
    /\ pc = "done"
    /\ \E t \in Tables :
          /\ ~marked[t] /\ purged[t]
          /\ \E dn \in DOMAIN Before(t) : dn \notin DOMAIN Table(t)
          /\ \E u \in Tables \ {t} : \E dn \in DOMAIN Before(u) :
                /\ ~Before(u)[dn].is_deleted
                /\ dn \in DOMAIN Table(u) => Table(u)[dn].is_deleted

\* the rows of t a run found stamped before its watermark and was not given again
Due(t) ==
    {dn \in DOMAIN Before(t) : Before(t)[dn].updated_at < Watermark /\ dn \notin fetched[t]}

\* those of them stamped more than the retention before the watermark
Overdue(t) ==
    {dn \in Due(t) : Before(t)[dn].updated_at + purgeAgeInDays * SecondsPerDay < Watermark}

\* C31: once a run has started it comes to its end, and if its lifecycle statements
\* succeeded on a table, every row of the table that the directory no longer returned
\* and that was stamped before the run's watermark is soft-deleted or gone, and
\* every such row stamped more than the retention before the watermark is gone; a
\* record returned to a committing synchronizer is never purged by that run.
C31_EventuallyPurged ==
    /\ pc = "syncRoles" ~>
          /\ pc = "done"
          /\ \A t \in Tables : marked[t] /\ purged[t] =>
                /\ \A dn \in Due(t) : dn \in DOMAIN Table(t) => Table(t)[dn].is_deleted
                /\ \A dn \in Overdue(t) : dn \notin DOMAIN Table(t)
    /\ [](\A t \in Tables : committed[t] => fetched[t] \subseteq DOMAIN Table(t))

\* C31 witness: a record was withdrawn, soft-deleted by a run within the retention
\* and kept, and its row was deleted by a later run; a record that was still returned
\* is live.
C31_Witness ==
    /\ pc = "done"
    /\ \E t \in Tables :
          /\ \E dn \in DOMAIN Before(t) :
                /\ Before(t)[dn].is_deleted
                /\ dn \notin fetched[t]
                /\ dn \notin DOMAIN Table(t)
          /\ \E dn \in fetched[t] : dn \in DOMAIN Before(t) /\ ~Table(t)[dn].is_deleted

\* the two processes, the one with the earlier watermark first, when they differ
Ordered ==
    {o \in Processes \X Processes : rivalTimestampStr(o[1]) < rivalTimestampStr(o[2])}

\* both processes have ended their run
BothOver == \A p \in Processes : rival[p].pc = "done"

\* the directory returned dn to the synchronizer of t in both runs, and both committed
ReturnedToBoth(t, dn) ==
    \A p \in Processes : rival[p].committed[t] /\ dn \in rival[p].fetched[t]

\* the row is left soft-deleted, or stamped earlier than the later watermark
LeftStale(t, dn) ==
    /\ dn \in DOMAIN Table(t)
    /\ \/ Table(t)[dn].is_deleted
       \/ \E p \in Processes : Table(t)[dn].updated_at < rivalTimestampStr(p)

\* C32: two runs against the same store can leave a record that the directory
\* returned to both, both synchronizers committing, soft-deleted or stamped earlier
\* than the later watermark; it happens only when the two runs overlap so that the
\* run with the earlier watermark upserts the record after the run with the later
\* watermark did.
C32_StaleOnlyWhenOvertaken ==
    BothOver =>
        \A t \in Tables : \A dn \in DOMAIN Table(t) :
            ReturnedToBoth(t, dn) /\ LeftStale(t, dn) =>
                \E o \in Ordered : rival[o[1]].last[t]

\* C32 witness: both runs are over, every synchronizer of both committed, and a
\* record returned to both is left soft-deleted.
C32_Witness ==
    /\ BothOver
    /\ \A t \in Tables : \A p \in Processes : rival[p].committed[t]
    /\ \E t \in Tables : \E dn \in DOMAIN Table(t) :
          ReturnedToBoth(t, dn) /\ Table(t)[dn].is_deleted

\* C33: a row upserted by a synchronizer that committed in the current run is left
\* as it is, with is_deleted = FALSE, by the mark step and by the purge step of that
\* run, whatever the retention, zero and negative values included.
C33_TouchedRowsSurvive ==
    [][MarkStep \/ PurgeStep =>
          \A t \in Tables : committed[t] =>
              \A dn \in fetched[t] :
                  /\ dn \in DOMAIN Table(t)'
                  /\ Table(t)'[dn] = Table(t)[dn]
                  /\ ~Table(t)'[dn].is_deleted]_vars

\* C33 witness: a run with a negative retention has ended in which a row that existed
\* before was upserted by a committing synchronizer and is live, while a row of the
\* same table that was not upserted was deleted.
C33_Witness ==
    /\ pc = "done"
    /\ purgeAgeInDays < 0
    /\ \E t \in Tables :
          /\ committed[t]
          /\ \E dn \in fetched[t] \cap DOMAIN Before(t) :
                dn \in DOMAIN Table(t) /\ ~Table(t)[dn].is_deleted
          /\ \E dn \in DOMAIN Before(t) : dn \notin DOMAIN Table(t)

\* C34: when the synchronizer of an entity type did not commit in a run and the mark
\* statement succeeded on its table, every row left in the table at the end of the
\* run has is_deleted = TRUE.
C34_FailedSyncFlagsWholeTable ==
    pc = "done" =>
        \A t \in Tables : searched[t] # NotRun /\ ~committed[t] /\ marked[t] =>
            \A dn \in DOMAIN Table(t) : Table(t)[dn].is_deleted

\* C35: at the end of a run whose Role synchronizer committed, the child_dn of every
\* RoleParent row names a Role row with is_deleted = FALSE and updated_at = the run
\* watermark, and its parent_dn names a Role row that exists.
C35_ChildrenLive ==
    pc = "done" /\ committed["viz_roles"] =>
        \A p \in viz_roles_parents :
            /\ p[1] \in DOMAIN viz_roles
            /\ ~viz_roles[p[1]].is_deleted
            /\ viz_roles[p[1]].updated_at = Watermark
            /\ p[2] \in DOMAIN viz_roles

\* C35 witness: such a run has ended with a RoleParent row whose parent is a
\* soft-deleted Role row, the lifecycle statements having succeeded on viz_roles.
C35_Witness ==
    /\ pc = "done"
    /\ committed["viz_roles"]
    /\ marked["viz_roles"] /\ purged["viz_roles"]
    /\ \E p \in viz_roles_parents : viz_roles[p[2]].is_deleted

\* C36: the mark step and the purge step insert no row, leave created_at, updated_at
\* and every other column of a row that remains as they were, is_deleted apart, never
\* turn is_deleted from TRUE to FALSE, and remove from viz_roles_parents exactly the
\* rows that name a Role row the step deleted; the mark step removes none.
C36_LifecycleFrame ==
    [][MarkStep \/ PurgeStep =>
          /\ \A t \in Tables :
                /\ DOMAIN Table(t)' \subseteq DOMAIN Table(t)
                /\ \A dn \in DOMAIN Table(t)' :
                      /\ Table(t)'[dn] =
                            [Table(t)[dn] EXCEPT !.is_deleted = Table(t)'[dn].is_deleted]
                      /\ Table(t)[dn].is_deleted => Table(t)'[dn].is_deleted
          /\ viz_roles_parents' =
                {p \in viz_roles_parents :
                    p[1] \in DOMAIN viz_roles' /\ p[2] \in DOMAIN viz_roles'}
          /\ MarkStep => viz_roles_parents' = viz_roles_parents]_vars

\* C36 witness: a lifecycle pass has deleted a Role row and, by the cascade, the
\* RoleParent row that the role synchronizer of the run had inserted for it, and has
\* left the child Role row in place.
C36_Witness ==
    /\ pc = "done"
    /\ committed["viz_roles"]
    /\ DOMAIN before.viz_roles \ DOMAIN viz_roles # {}
    /\ \E p \in PairSet(parentStmts) :
          /\ p[2] \notin DOMAIN viz_roles
          /\ p[1] \in DOMAIN viz_roles
          /\ p \notin viz_roles_parents

\* the synchronizer of t returns in this step
SyncStep(t) ==
    \/ t = "viz_roles" /\ pc = "syncRoles" /\ pc' = "syncResources"
    \/ t = "viz_resources" /\ pc = "syncResources" /\ pc' = "syncAssociations"
    \/ t = "viz_roles_resources" /\ pc = "syncAssociations" /\ pc' = "mark"

\* C37: the synchronizer of an entity type leaves the tables of the other two entity
\* types as they were, only the Role synchronizer changes viz_roles_parents, and no
\* synchronizer removes a row from viz_roles, viz_resources or viz_roles_resources.
C37_SynchronizerFrame ==
    [][\A t \in Tables : SyncStep(t) =>
          /\ \A u \in Tables \ {t} : Table(u)' = Table(u)
          /\ t # "viz_roles" => viz_roles_parents' = viz_roles_parents
          /\ DOMAIN Table(t) \subseteq DOMAIN Table(t)']_vars

\* C37 witness: the Resource synchronizer has committed a change of its table while
\* the Role table and the RoleParent table held rows, and a Resource row that it was
\* not given is still there.
C37_Witness ==
    /\ pc = "syncAssociations"
    /\ committed["viz_resources"]
    /\ viz_resources # before.viz_resources
    /\ viz_roles # EmptyTable /\ viz_roles_parents # {}
    /\ \E t \in Tables : \E dn \in DOMAIN Before(t) :
          dn \notin fetched[t] /\ committed[t] /\ dn \in DOMAIN Table(t)


\* the members a text serializes, if it is the text of a localized-text map
MembersOf(text) ==
    {ms \in SeqUpTo(LocalizedMember, MaxEntries) : text = JsonObject(ms)}
\* the languages of a list of members, and the (last) value each language is given
LanguagesOf(ms) == {KeyOf(ms[n][1]) : n \in 1..Len(ms)}
ValueIn(ms, l) ==
    TextOf(ms[CHOOSE n \in 1..Len(ms) :
                  /\ KeyOf(ms[n][1]) = l
                  /\ \A m \in 1..Len(ms) : KeyOf(ms[m][1]) = l => m <= n][2])
\* the languages of the priority list that have a non-empty value
Usable(ms, prefs) ==
    {n \in 1..Len(prefs) : prefs[n] \in LanguagesOf(ms) /\ ValueIn(ms, prefs[n]) # ""}

====
